---- MODULE Spec2Model ----
(***************************************************************************)
(* ToK-Reader: the three-layer database cache (memory -> IndexedDB ->      *)
(* network) of src/lib/database/DatabaseManager.ts, modelled as a state    *)
(* machine whose steps are the synchronous stretches between two awaits.   *)
(* JavaScript is single-threaded: every stretch is atomic, and the         *)
(* stretches of different async calls interleave freely.                   *)
(***************************************************************************)
EXTENDS Integers, Sequences, FiniteSets, TLC

\* ------------------------------------------------------------------ bounds
MaxCount    == 3    \* the largest count passed to getUtteranceChain
MaxLookups  == 5    \* getUtterance calls of one getExchangeStart that are followed
NumDates    == 2    \* the dates of the utterance table are 1..NumDates
NumYears    == 4    \* years (partition keys) the clients ask for
NumBusyYears == 2   \* years the overlapping calls ask for
MaxLoads    == 2    \* loads in flight at one time
MaxJoiners  == 2    \* calls waiting on the promise of one load, besides its starter
MaxClears   == 1    \* clearCache calls that have not completed
MaxDup      == 2    \* loads of one year that can be told apart at one time
MaxAwaiting == 1    \* provider calls that got the cached instance and have not resumed
MaxBytes    == 3    \* the bytes of a buffer looked at by isGzipped
MaxPad      == 101  \* the characters of a content before and after its middle
MaxRows     == 102  \* the rows of a table searched for more rows than the limit
MaxQueryLen == 3    \* the characters of a search query
MaxContentLen == 3  \* the characters of a content searched by text
MaxTotal    == 3    \* the largest size declared by a content-length header
MaxChunk    == 2    \* the largest number of bytes of one chunk of a response
MaxChunks   == 3    \* the chunks of one response

\* ------------------------------------------------------ program constants
maxCachedDatabases == 3
cacheVersion == "1.0.0"
staleVersion == "0.9.0"   \* the cacheVersion of an earlier release

Years    == 1..NumYears
BusyYears == 1..NumBusyYears
None     == <<0, 0>>   \* Map.get -> undefined
NotFound == 0          \* indexOf -> -1
AllYears == 0          \* clearCache() called without a year
Absent   == "absent"   \* no IndexedDB entry under that key

\* A load (an activation of _loadDatabaseInternal) is named <<year, k>>; so is
\* the Database instance it opens and the Error it throws.
Ids == Years \X (1..MaxDup)

VARIABLES
  SQL,              \* DatabaseManager.SQL: TRUE once sql.js is initialised
  memoryCache,      \* DatabaseManager.memoryCache: year -> Database instance, None when absent
  loadingPromises,  \* DatabaseManager.loadingPromises: year -> load, None when absent
  lruQueue,         \* DatabaseManager.lruQueue, most recently used last
  store,            \* the IndexedDB object store: year -> version of the entry, or Absent
  loads,            \* the loads some loadDatabase call still waits for
  clearing,         \* the arguments of the clearCache calls that have not completed
  recency,          \* history: the resident years in the order of their last access
  closedNow,        \* what the last step did: the instances it called close() on
  delivered,        \* what the last step did: the loadDatabase call it settled
  isLoadedResult,   \* what the last step did: the isLoaded call it made
  cacheDb,          \* DatabaseCache.db: TRUE once the IndexedDB handle is set
  utterance,       \* the utterance table (joined with person) of the queried year
  walk,             \* the query, handler or hook of a client, in progress or returned
  loadingStates,    \* DatabaseProvider's loadingStates: year -> DatabaseLoadingProgress
  awaiting          \* year -> the provider's loadDatabase calls that got the cached
                    \* instance and have not resumed after their await

vars == <<SQL, memoryCache, loadingPromises, lruQueue, store, loads, clearing,
          recency, closedNow, delivered, isLoadedResult, cacheDb, utterance, walk,
          loadingStates, awaiting>>

\* What the provider of the context holds and leaves as it is in a step.
ProviderFrame == UNCHANGED <<loadingStates, awaiting>>

\* No table loaded, no query made.
NoTable == <<>>
Idle == [pc |-> "idle"]

\* loadingStates has no entry for the year (Map.get -> undefined).
NotInMap == [state |-> "idle", progress |-> 0, error |-> ""]

\* The entry of a load is what db.get gave to its DatabaseCache.get: the stored
\* version, Absent, or NotRead as long as db.get has not returned.
NotRead == "notRead"

NoLoad == [pc |-> "none", owner |-> FALSE, joiners |-> 0, att |-> None,
           reads |-> 0, fetches |-> 0, failedAt |-> "", entry |-> NotRead]

Resident == {y \in Years : memoryCache[y] # None}
Loading  == {y \in Years : loadingPromises[y] # None}
Live     == {p \in Ids : loads[p].pc # "none"}
Running  == {p \in Ids : loads[p].pc \notin {"none", "resolved", "rejected"}}

\* The promise of a load is settled once pc is "resolved" or "rejected".
Settled(p) == loads[p].pc \in {"resolved", "rejected"}
Outcome(p) == [ok |-> loads[p].pc = "resolved", val |-> p]

\* ------------------------------------------------------------- updateLRU
\* Array.prototype.indexOf: the first index holding y, NotFound (-1) when there is none.
IndexOf(q, y) ==
  IF \E i \in 1..Len(q) : q[i] = y
    THEN CHOOSE i \in 1..Len(q) : q[i] = y /\ \A j \in 1..(i-1) : q[j] # y
    ELSE NotFound

\* q.splice(i, 1)
Splice(q, i) == SubSeq(q, 1, i-1) \o SubSeq(q, i+1, Len(q))

\* Touch with a queued year left where it is.
TouchNoMove(q, year) ==
  IF IndexOf(q, year) # NotFound THEN q ELSE Append(q, year)

\* updateLRU, lines 66-73: remove the year if it is queued, push it at the end.
Touch(q, year) ==
  LET index == IndexOf(q, year)
  IN  Append(IF index # NotFound THEN Splice(q, index) ELSE q, year)

\* OverLimit with the limit off by one.
OverLimitOffByOne(q) == Len(q) > maxCachedDatabases + 1 /\ Len(q) > 0

\* updateLRU, lines 76-79: the condition of the eviction loop.
OverLimit(q) == Len(q) > maxCachedDatabases /\ Len(q) > 0

\* EvictOne without the call of close().
EvictOneNoClose(s) ==
  LET yearToEvict == Head(s.lru)
      db == s.mem[yearToEvict]
  IN  [lru |-> Tail(s.lru),
       mem |-> IF db # None THEN [s.mem EXCEPT ![yearToEvict] = None] ELSE s.mem,
       cls |-> s.cls]

\* updateLRU, lines 80-87: one round of the eviction loop on
\* s = [lru, mem, cls]; cls lists the close() calls made.
EvictOne(s) ==
  LET yearToEvict == Head(s.lru)
      db == s.mem[yearToEvict]
  IN  [lru |-> Tail(s.lru),
       mem |-> IF db # None THEN [s.mem EXCEPT ![yearToEvict] = None] ELSE s.mem,
       cls |-> IF db # None THEN Append(s.cls, [db |-> db, by |-> "evict"]) ELSE s.cls]

RECURSIVE EvictLoop(_)
EvictLoop(s) == IF OverLimit(s.lru) THEN EvictLoop(EvictOne(s)) ELSE s

updateLRU(mem, q, year) == EvictLoop([lru |-> Touch(q, year), mem |-> mem, cls |-> <<>>])

\* The order of last access after an access of year, over the years of the set res.
Accessed(r, year, res) ==
  SelectSeq(SelectSeq(r, LAMBDA y : y # year) \o <<year>>, LAMBDA y : y \in res)

\* ---------------------------------------------------------------- Init
Init ==
  /\ SQL = FALSE
  /\ memoryCache = [y \in Years |-> None]
  /\ loadingPromises = [y \in Years |-> None]
  /\ lruQueue = <<>>
  /\ store = [y \in Years |-> Absent]
  /\ loads = [p \in Ids |-> NoLoad]
  /\ clearing = <<>>
  /\ recency = <<>>
  /\ closedNow = <<>>
  /\ delivered = <<>>
  /\ isLoadedResult = <<>>
  /\ cacheDb = FALSE
  /\ utterance = NoTable
  /\ walk = Idle
  /\ loadingStates = [y \in Years |-> NotInMap]
  /\ awaiting = [y \in Years |-> 0]

\* A session that finds the entries an earlier session left in IndexedDB for
\* the years 1..NumBusyYears, written by this release or by an earlier one.
InitStored ==
  /\ SQL = FALSE
  /\ memoryCache = [y \in Years |-> None]
  /\ loadingPromises = [y \in Years |-> None]
  /\ lruQueue = <<>>
  /\ store \in [Years -> {Absent, cacheVersion, staleVersion}]
  /\ \A y \in Years \ BusyYears : store[y] = Absent
  /\ loads = [p \in Ids |-> NoLoad]
  /\ clearing = <<>>
  /\ recency = <<>>
  /\ closedNow = <<>>
  /\ delivered = <<>>
  /\ isLoadedResult = <<>>
  /\ cacheDb = FALSE
  /\ utterance = NoTable
  /\ walk = Idle
  /\ loadingStates = [y \in Years |-> NotInMap]
  /\ awaiting = [y \in Years |-> 0]

\* ----------------------------------------------------------- loadDatabase
\* lines 102-103
CachedInMemory(year) == memoryCache[year] # None

\* AlreadyLoading without the look-up in the registry.
AlreadyLoadingNever(year) == FALSE

\* lines 109-110
AlreadyLoading(year) == loadingPromises[year] # None

\* The load attempt a call overlaps: the one registered for its year when the
\* call is made, else the one the call starts (self).
Overlapped(year, self) ==
  IF loadingPromises[year] # None THEN loadingPromises[year] ELSE self

\* lines 101-106: memory hit; the call returns the cached instance at once.
LoadHitCall(year) ==
  /\ CachedInMemory(year)
  /\ LET r == updateLRU(memoryCache, lruQueue, year)
     IN  /\ memoryCache' = r.mem
         /\ lruQueue' = r.lru
         /\ closedNow' = r.cls
         /\ recency' = Accessed(recency, year, {y \in Years : r.mem[y] # None})
  /\ delivered' = IF loadingPromises[year] # None
                    THEN <<[by |-> "hit", att |-> loadingPromises[year], ok |-> TRUE,
                            val |-> memoryCache[year]]>>
                    ELSE <<>>
  /\ isLoadedResult' = <<>>
  /\ UNCHANGED <<cacheDb, utterance>>
  /\ UNCHANGED <<SQL, loadingPromises, store, loads, clearing>>

\* LoadHitCall by a caller other than the provider of the context and the queries.
LoadHit(year) == LoadHitCall(year) /\ ProviderFrame /\ UNCHANGED walk

\* lines 108-112: a load of the year is registered; the call returns its promise.
LoadJoinCall(year) ==
  /\ ~CachedInMemory(year)
  /\ AlreadyLoading(year)
  /\ loads' = [loads EXCEPT ![loadingPromises[year]].joiners = @ + 1]
  /\ closedNow' = <<>>
  /\ delivered' = <<>>
  /\ isLoadedResult' = <<>>
  /\ UNCHANGED <<cacheDb, utterance>>
  /\ UNCHANGED <<SQL, memoryCache, loadingPromises, lruQueue, store, clearing, recency>>

\* LoadJoinCall by a caller other than the provider of the context and the queries.
LoadJoin(year) == LoadJoinCall(year) /\ ProviderFrame /\ UNCHANGED walk

\* A name no live load and no resident instance bears.
FreeIds(year) ==
  {p \in Ids : p[1] = year /\ loads[p].pc = "none" /\ memoryCache[year] # p}
NewId(year) ==
  CHOOSE p \in FreeIds(year) : \A q \in FreeIds(year) : p[2] <= q[2]

\* lines 114-119 with 134-138 and 33-34: _loadDatabaseInternal runs up to its
\* first await (of initSqlJs, which returns at once when SQL is set), the promise
\* is registered, and the call awaits it.
LoadStartCall(year) ==
  /\ ~CachedInMemory(year)
  /\ ~AlreadyLoading(year)
  /\ FreeIds(year) # {}
  /\ LET p == NewId(year)
     IN  /\ loads' = [loads EXCEPT ![p] =
                       [pc |-> IF SQL THEN "sqlReady" ELSE "sqlInit",
                        owner |-> TRUE, joiners |-> 0,
                        att |-> Overlapped(year, p),
                        reads |-> 0, fetches |-> 0, failedAt |-> "", entry |-> NotRead]]
         /\ loadingPromises' = [loadingPromises EXCEPT ![year] = p]
  /\ closedNow' = <<>>
  /\ delivered' = <<>>
  /\ isLoadedResult' = <<>>
  /\ UNCHANGED <<cacheDb, utterance>>
  /\ UNCHANGED <<SQL, memoryCache, lruQueue, store, clearing, recency>>

\* LoadStartCall by a caller other than the provider of the context and the queries.
LoadStart(year) == LoadStartCall(year) /\ ProviderFrame /\ UNCHANGED walk

\* ------------------------------------------------- _loadDatabaseInternal
\* lines 166-173: open the bytes, store the instance in the memory cache,
\* update the LRU queue, resolve.
OpenAndCache(p, ls) ==
  LET year == p[1]
      r == updateLRU([memoryCache EXCEPT ![year] = p], lruQueue, year)
  IN  /\ memoryCache' = r.mem
      /\ lruQueue' = r.lru
      /\ closedNow' = r.cls
      /\ recency' = Accessed(recency, year, {y \in Years : r.mem[y] # None})
      /\ loads' = [ls EXCEPT ![p].pc = "resolved"]

\* DatabaseCache.get up to its first await (DatabaseCache.init): openDB is called
\* unless the handle is set.
CacheGetCalled == IF cacheDb THEN "cacheGet" ELSE "cacheOpen"

\* lines 138-147, SQL was set when initSqlJs was called: databaseCache.get is called.
SqlReady(p) ==
  /\ loads[p].pc = "sqlReady"
  /\ loads' = [loads EXCEPT ![p].pc = CacheGetCalled, ![p].reads = @ + 1]
  /\ closedNow' = <<>>
  /\ delivered' = <<>>
  /\ isLoadedResult' = <<>>
  /\ UNCHANGED <<cacheDb, utterance, walk>>
  /\ ProviderFrame
  /\ UNCHANGED <<SQL, memoryCache, loadingPromises, lruQueue, store, clearing, recency>>

\* lines 36-58, 138-147: this call of initSqlJs initialised the engine.
InitSqlJsDone(p) ==
  /\ loads[p].pc = "sqlInit"
  /\ SQL' = TRUE
  /\ loads' = [loads EXCEPT ![p].pc = CacheGetCalled, ![p].reads = @ + 1]
  /\ closedNow' = <<>>
  /\ delivered' = <<>>
  /\ isLoadedResult' = <<>>
  /\ UNCHANGED <<cacheDb, utterance, walk>>
  /\ ProviderFrame
  /\ UNCHANGED <<memoryCache, loadingPromises, lruQueue, store, clearing, recency>>

\* lines 39-45, 51, 140-142: the script or the engine failed to load; the load rejects.
InitSqlJsFailed(p) ==
  /\ loads[p].pc = "sqlInit"
  /\ loads' = [loads EXCEPT ![p].pc = "rejected", ![p].failedAt = "initSqlJs"]
  /\ closedNow' = <<>>
  /\ delivered' = <<>>
  /\ isLoadedResult' = <<>>
  /\ UNCHANGED <<cacheDb, utterance, walk>>
  /\ ProviderFrame
  /\ UNCHANGED <<SQL, memoryCache, loadingPromises, lruQueue, store, clearing, recency>>

\* DatabaseCache.init inside get: openDB returned the handle, this.db is set and
\* the entry is read.
CacheOpenDone(p) ==
  /\ loads[p].pc = "cacheOpen"
  /\ cacheDb' = TRUE
  /\ loads' = [loads EXCEPT ![p].pc = "cacheGet"]
  /\ closedNow' = <<>>
  /\ delivered' = <<>>
  /\ isLoadedResult' = <<>>
  /\ UNCHANGED <<SQL, memoryCache, loadingPromises, lruQueue, store, clearing, recency>>
  /\ UNCHANGED <<utterance, walk>>
  /\ ProviderFrame

\* DatabaseCache.init inside get: openDB threw.  The await of init is outside
\* the try block of get, so get throws, and so does the load (line 147).
CacheOpenFailed(p) ==
  /\ loads[p].pc = "cacheOpen"
  /\ loads' = [loads EXCEPT ![p].pc = "rejected", ![p].failedAt = "openDB"]
  /\ closedNow' = <<>>
  /\ delivered' = <<>>
  /\ isLoadedResult' = <<>>
  /\ UNCHANGED <<SQL, memoryCache, loadingPromises, lruQueue, store, clearing, recency>>
  /\ UNCHANGED <<cacheDb, utterance, walk>>
  /\ ProviderFrame

\* CacheGetData without the version check.
CacheGetDataAnyVersion(year) == store[year] # Absent

\* DatabaseCache.get: the entry is served only with the running version.
CacheGetData(year) == store[year] = cacheVersion

\* lines 147-150, 166-173: IndexedDB hit.
CacheGetHit(p) ==
  /\ loads[p].pc = "cacheGet"
  /\ CacheGetData(p[1])
  /\ OpenAndCache(p, [loads EXCEPT ![p].entry = store[p[1]]])
  /\ delivered' = <<>>
  /\ isLoadedResult' = <<>>
  /\ UNCHANGED <<cacheDb, utterance, walk>>
  /\ ProviderFrame
  /\ UNCHANGED <<SQL, loadingPromises, store, clearing>>

\* lines 147-154: IndexedDB miss (a stale entry is deleted by get); fetchDatabase is called.
CacheGetMiss(p) ==
  /\ loads[p].pc = "cacheGet"
  /\ ~CacheGetData(p[1])
  /\ store' = [store EXCEPT ![p[1]] = Absent]
  /\ loads' = [loads EXCEPT ![p].pc = "fetch", ![p].fetches = @ + 1,
                           ![p].entry = store[p[1]]]
  /\ closedNow' = <<>>
  /\ delivered' = <<>>
  /\ isLoadedResult' = <<>>
  /\ UNCHANGED <<cacheDb, utterance, walk>>
  /\ ProviderFrame
  /\ UNCHANGED <<SQL, memoryCache, loadingPromises, lruQueue, clearing, recency>>

\* lines 147-154: the IndexedDB read threw, which DatabaseCache.get logs and
\* turns into a miss (the entry was not read); or the entry read is stale and
\* db.delete threw, which DatabaseCache.delete logs and swallows.  Either way
\* get returns null with the store as it was, and fetchDatabase is called.
CacheGetFailed(p) ==
  /\ loads[p].pc = "cacheGet"
  /\ \E entry \in {NotRead} \cup ({store[p[1]]} \ {Absent, cacheVersion}) :
       loads' = [loads EXCEPT ![p].pc = "fetch", ![p].fetches = @ + 1,
                              ![p].entry = entry]
  /\ closedNow' = <<>>
  /\ delivered' = <<>>
  /\ isLoadedResult' = <<>>
  /\ UNCHANGED <<cacheDb, utterance, walk>>
  /\ ProviderFrame
  /\ UNCHANGED <<SQL, memoryCache, loadingPromises, lruQueue, store, clearing, recency>>

\* FetchDone that opens the bytes before they are written to IndexedDB.
FetchDoneOpened(p) ==
  /\ loads[p].pc = "fetch"
  /\ OpenAndCache(p, loads)
  /\ delivered' = <<>>
  /\ isLoadedResult' = <<>>
  /\ UNCHANGED <<cacheDb, utterance, walk>>
  /\ ProviderFrame
  /\ UNCHANGED <<SQL, loadingPromises, store, clearing>>

\* lines 154-158: the bytes arrived; databaseCache.set is called.
FetchDone(p) ==
  /\ loads[p].pc = "fetch"
  /\ loads' = [loads EXCEPT ![p].pc = "cacheSet"]
  /\ closedNow' = <<>>
  /\ delivered' = <<>>
  /\ isLoadedResult' = <<>>
  /\ UNCHANGED <<cacheDb, utterance, walk>>
  /\ ProviderFrame
  /\ UNCHANGED <<SQL, memoryCache, loadingPromises, lruQueue, store, clearing, recency>>

\* FetchFailed that writes an entry for the year before the load rejects.
FetchFailedStored(p) ==
  /\ loads[p].pc = "fetch"
  /\ loads' = [loads EXCEPT ![p].pc = "rejected", ![p].failedAt = "fetch"]
  /\ store' = [store EXCEPT ![p[1]] = cacheVersion]
  /\ closedNow' = <<>>
  /\ delivered' = <<>>
  /\ isLoadedResult' = <<>>
  /\ UNCHANGED <<cacheDb, utterance, walk>>
  /\ ProviderFrame
  /\ UNCHANGED <<SQL, memoryCache, loadingPromises, lruQueue, clearing, recency>>

\* line 154: fetchDatabase threw; the load rejects.
FetchFailed(p) ==
  /\ loads[p].pc = "fetch"
  /\ loads' = [loads EXCEPT ![p].pc = "rejected", ![p].failedAt = "fetch"]
  /\ closedNow' = <<>>
  /\ delivered' = <<>>
  /\ isLoadedResult' = <<>>
  /\ UNCHANGED <<cacheDb, utterance, walk>>
  /\ ProviderFrame
  /\ UNCHANGED <<SQL, memoryCache, loadingPromises, lruQueue, store, clearing, recency>>

\* CachePut that leaves an entry already stored as it is.
CachePutIfAbsent(year) ==
  IF store[year] = Absent THEN [store EXCEPT ![year] = cacheVersion] ELSE store

\* DatabaseCache.set: db.put stores the entry of the year, tagged with the
\* running version, in place of any entry stored for the year.
CachePut(year) == [store EXCEPT ![year] = cacheVersion]

\* lines 157-159, 166-173: the entry was written.
CacheSetDone(p) ==
  /\ loads[p].pc = "cacheSet"
  /\ store' = CachePut(p[1])
  /\ OpenAndCache(p, loads)
  /\ delivered' = <<>>
  /\ isLoadedResult' = <<>>
  /\ UNCHANGED <<cacheDb, utterance, walk>>
  /\ ProviderFrame
  /\ UNCHANGED <<SQL, loadingPromises, clearing>>

\* CacheSetFailed with the error of the write rethrown.
CacheSetFailedRethrown(p) ==
  /\ loads[p].pc = "cacheSet"
  /\ loads' = [loads EXCEPT ![p].pc = "rejected", ![p].failedAt = "cacheSet"]
  /\ closedNow' = <<>>
  /\ delivered' = <<>>
  /\ isLoadedResult' = <<>>
  /\ UNCHANGED <<cacheDb, utterance, walk>>
  /\ ProviderFrame
  /\ UNCHANGED <<SQL, memoryCache, loadingPromises, lruQueue, store, clearing, recency>>

\* lines 160-163, 166-173: the write threw, which is logged and ignored.
CacheSetFailed(p) ==
  /\ loads[p].pc = "cacheSet"
  /\ OpenAndCache(p, loads)
  /\ delivered' = <<>>
  /\ isLoadedResult' = <<>>
  /\ UNCHANGED <<cacheDb, utterance, walk>>
  /\ ProviderFrame
  /\ UNCHANGED <<SQL, loadingPromises, store, clearing>>

\* The years named by the message of the error a rejected load throws: only
\* fetchDatabase wraps what it catches with the year; the errors of initSqlJs
\* and of openDB are thrown as they are.
ErrorYears(p) == IF loads[p].failedAt = "fetch" THEN {p[1]} ELSE {}

\* ----------------------------------------- loadDatabase, after its await
\* DeleteOnResolve without the delete.
DeleteOnResolveKept(lp, year) == lp

\* line 120
DeleteOnResolve(lp, year) == [lp EXCEPT ![year] = None]

\* DeleteOnReject without the delete.
DeleteOnRejectKept(lp, year) == lp

\* line 123
DeleteOnReject(lp, year) == [lp EXCEPT ![year] = None]

\* OwnerResult with the error swallowed instead of rethrown.
OwnerResultSwallowed(p) == [ok |-> TRUE, val |-> p]

\* lines 119-124: what the call that started the load returns or throws.
OwnerResult(p) == Outcome(p)

\* A load is forgotten once no loadDatabase call waits for it any more.
Forget(ls) ==
  [p \in Ids |-> IF ~ls[p].owner /\ ls[p].joiners = 0 THEN NoLoad ELSE ls[p]]

\* lines 119-125: the call that started the load resumes: it unregisters the
\* load and returns the instance or rethrows the error.
LoadSettledCall(p) ==
  /\ Settled(p)
  /\ loads[p].owner
  /\ loadingPromises' = IF loads[p].pc = "resolved"
                          THEN DeleteOnResolve(loadingPromises, p[1])
                          ELSE DeleteOnReject(loadingPromises, p[1])
  /\ loads' = Forget([loads EXCEPT ![p].owner = FALSE])
  /\ delivered' = <<[by |-> "start", att |-> loads[p].att, ok |-> OwnerResult(p).ok,
                     val |-> OwnerResult(p).val]>>
  /\ closedNow' = <<>>
  /\ isLoadedResult' = <<>>
  /\ UNCHANGED <<cacheDb, utterance>>
  /\ UNCHANGED <<SQL, memoryCache, lruQueue, store, clearing, recency>>

\* LoadSettledCall by a caller other than the provider of the context and the queries.
LoadSettled(p) == LoadSettledCall(p) /\ ProviderFrame /\ UNCHANGED walk

\* lines 110-112: a call that returned the registered promise settles as that
\* promise did.  Its reaction was registered after the one of the starting call
\* (line 119), so it runs after it.
JoinSettledCall(p) ==
  /\ Settled(p)
  /\ ~loads[p].owner
  /\ loads[p].joiners > 0
  /\ loads' = Forget([loads EXCEPT ![p].joiners = @ - 1])
  /\ delivered' = <<[by |-> "join", att |-> p, ok |-> Outcome(p).ok, val |-> Outcome(p).val]>>
  /\ closedNow' = <<>>
  /\ isLoadedResult' = <<>>
  /\ UNCHANGED <<cacheDb, utterance>>
  /\ UNCHANGED <<SQL, memoryCache, loadingPromises, lruQueue, store, clearing, recency>>

\* JoinSettledCall by a caller other than the provider of the context and the queries.
JoinSettled(p) == JoinSettledCall(p) /\ ProviderFrame /\ UNCHANGED walk

\* ------------------------------------------------------------- clearCache
\* ClearYearLRU without the splice.
ClearYearLRUKept(q, year) == q

\* lines 252-255
ClearYearLRU(q, year) ==
  LET lruIndex == IndexOf(q, year)
  IN  IF lruIndex # NotFound THEN Splice(q, lruIndex) ELSE q

\* lines 244-257: close and drop the year's instance, unqueue the year, call
\* databaseCache.delete.
ClearCacheYear(year) ==
  /\ LET db == memoryCache[year]
     IN  /\ memoryCache' = IF db # None THEN [memoryCache EXCEPT ![year] = None]
                                        ELSE memoryCache
         /\ closedNow' = IF db # None THEN <<[db |-> db, by |-> "clear"]>> ELSE <<>>
  /\ lruQueue' = ClearYearLRU(lruQueue, year)
  /\ recency' = SelectSeq(recency, LAMBDA y : y # year)
  /\ clearing' = Append(clearing, year)
  /\ delivered' = <<>>
  /\ isLoadedResult' = <<>>
  /\ UNCHANGED <<cacheDb, utterance, walk>>
  /\ ProviderFrame
  /\ UNCHANGED <<SQL, loadingPromises, store, loads>>

\* Map.values(): the instances, here in the order of their years.
RECURSIVE Values(_, _)
Values(mem, ys) ==
  IF ys = {} THEN <<>>
  ELSE LET y == CHOOSE x \in ys : \A z \in ys : x <= z
       IN  <<mem[y]>> \o Values(mem, ys \ {y})

\* lines 259-266: close every instance, empty the map and the queue, call
\* databaseCache.clear.
ClearCacheAll ==
  /\ closedNow' = [i \in 1..Cardinality(Resident) |->
                     [db |-> Values(memoryCache, Resident)[i], by |-> "clear"]]
  /\ memoryCache' = [y \in Years |-> None]
  /\ lruQueue' = <<>>
  /\ recency' = <<>>
  /\ clearing' = Append(clearing, AllYears)
  /\ delivered' = <<>>
  /\ isLoadedResult' = <<>>
  /\ UNCHANGED <<cacheDb, utterance, walk>>
  /\ ProviderFrame
  /\ UNCHANGED <<SQL, loadingPromises, store, loads>>

\* lines 257 / 266 and the return: the IndexedDB delete (clear) is done and
\* clearCache completes.
ClearCacheDone(i) ==
  /\ i \in DOMAIN clearing
  /\ store' = IF clearing[i] = AllYears
                THEN [y \in Years |-> Absent]
                ELSE [store EXCEPT ![clearing[i]] = Absent]
  /\ clearing' = Splice(clearing, i)
  /\ cacheDb' = TRUE
  /\ closedNow' = <<>>
  /\ delivered' = <<>>
  /\ isLoadedResult' = <<>>
  /\ UNCHANGED <<utterance, walk>>
  /\ ProviderFrame
  /\ UNCHANGED <<SQL, memoryCache, loadingPromises, lruQueue, loads, recency>>

\* lines 257 / 266 and the return: the IndexedDB delete (clear) threw, which
\* DatabaseCache.delete (clear) logs and ignores; clearCache completes.
ClearCacheDeleteFailed(i) ==
  /\ i \in DOMAIN clearing
  /\ clearing' = Splice(clearing, i)
  /\ cacheDb' = TRUE
  /\ closedNow' = <<>>
  /\ delivered' = <<>>
  /\ isLoadedResult' = <<>>
  /\ UNCHANGED <<utterance, walk>>
  /\ ProviderFrame
  /\ UNCHANGED <<SQL, memoryCache, loadingPromises, lruQueue, store, loads, recency>>

\* lines 257 / 266: DatabaseCache.init inside delete (clear) threw, the handle
\* not being set; its await is outside the try block, so clearCache throws.
ClearCacheRejected(i) ==
  /\ i \in DOMAIN clearing
  /\ ~cacheDb
  /\ clearing' = Splice(clearing, i)
  /\ closedNow' = <<>>
  /\ delivered' = <<>>
  /\ isLoadedResult' = <<>>
  /\ UNCHANGED <<cacheDb, utterance, walk>>
  /\ ProviderFrame
  /\ UNCHANGED <<SQL, memoryCache, loadingPromises, lruQueue, store, loads, recency>>

\* --------------------------------------------------------------- isLoaded
\* isLoaded that also counts a registered load.
isLoadedOrLoading(year) == memoryCache[year] # None \/ loadingPromises[year] # None

\* lines 222-224
isLoaded(year) == memoryCache[year] # None

IsLoaded(year) ==
  /\ isLoadedResult' = <<year, isLoaded(year)>>
  /\ UNCHANGED <<cacheDb, utterance, walk>>
  /\ ProviderFrame
  /\ closedNow' = <<>>
  /\ delivered' = <<>>
  /\ UNCHANGED <<SQL, memoryCache, loadingPromises, lruQueue, store, loads, clearing,
                 recency>>

\* ------------------------------------------------------- specifications
\* The steps of the loads in flight and of the calls that started them.
InternalSteps ==
  \/ \E p \in Live : SqlReady(p)
  \/ \E p \in Live : InitSqlJsDone(p)
  \/ \E p \in Live : InitSqlJsFailed(p)
  \/ \E p \in Live : CacheOpenDone(p)
  \/ \E p \in Live : CacheOpenFailed(p)
  \/ \E p \in Live : CacheGetHit(p)
  \/ \E p \in Live : CacheGetMiss(p)
  \/ \E p \in Live : CacheGetFailed(p)
  \/ \E p \in Live : FetchDone(p)
  \/ \E p \in Live : FetchFailed(p)
  \/ \E p \in Live : CacheSetDone(p)
  \/ \E p \in Live : CacheSetFailed(p)

LoadSteps ==
  \/ InternalSteps
  \/ \E p \in Live : LoadSettled(p)

\* Clients whose loadDatabase calls overlap: up to MaxLoads loads in flight at a
\* time, each with up to MaxJoiners more calls waiting on it, over the years
\* 1..NumBusyYears.
Next ==
  \/ \E year \in BusyYears : LoadHit(year)
  \/ \E year \in BusyYears :
       /\ AlreadyLoading(year)
       /\ loads[loadingPromises[year]].joiners < MaxJoiners
       /\ LoadJoin(year)
  \/ \E year \in BusyYears : Cardinality(Live) < MaxLoads /\ LoadStart(year)
  \/ LoadSteps
  \/ \E p \in Live : JoinSettled(p)

Spec == InitStored /\ [][Next]_vars

\* InitStored after an upgrade: the entry of year 1 was written by an earlier
\* release, the entries of the other years by this one.
InitUpgraded ==
  /\ InitStored
  /\ \A y \in BusyYears : store[y] = IF y = 1 THEN staleVersion ELSE cacheVersion

\* The calls of Spec after an upgrade, where a call waiting on a settled
\* promise is resumed (the microtask queue runs every reaction job).
FairSpec ==
  /\ InitUpgraded
  /\ [][Next]_vars
  /\ \A p \in Ids : WF_vars(LoadSettled(p)) /\ WF_vars(JoinSettled(p))

\* The next step of the load p, whatever it waits for: initSqlJs, IndexedDB,
\* the network, or the microtask that resumes its starting call.
StepOf(p) ==
  \/ SqlReady(p)
  \/ InitSqlJsDone(p)
  \/ InitSqlJsFailed(p)
  \/ CacheOpenDone(p)
  \/ CacheOpenFailed(p)
  \/ CacheGetHit(p)
  \/ CacheGetMiss(p)
  \/ CacheGetFailed(p)
  \/ FetchDone(p)
  \/ FetchFailed(p)
  \/ CacheSetDone(p)
  \/ CacheSetFailed(p)
  \/ LoadSettled(p)

\* The calls of Spec after an upgrade, where the script loader, IndexedDB and
\* the network answer every request, with success or with an error, and the
\* microtask queue runs every reaction job.
RespondingSpec ==
  /\ InitUpgraded
  /\ [][Next]_vars
  /\ \A p \in Ids : WF_vars(StepOf(p))

\* Clients that call loadDatabase for every year, with up to MaxLoads loads in
\* flight at a time, and never for a year whose load has not completed.
NextEvict ==
  \/ \E year \in Years : LoadHit(year)
  \/ \E year \in Years : Cardinality(Live) < MaxLoads /\ LoadStart(year)
  \/ LoadSteps

SpecEvict == Init /\ [][NextEvict]_vars

\* Clients that call loadDatabase, one load in flight at a time, and clearCache.
NextClear ==
  \/ \E year \in Years : LoadHit(year)
  \/ \E year \in Years : Live = {} /\ LoadStart(year)
  \/ LoadSteps
  \/ \E year \in Years : Len(clearing) < MaxClears /\ ClearCacheYear(year)
  \/ Len(clearing) < MaxClears /\ ClearCacheAll
  \/ \E i \in DOMAIN clearing : ClearCacheDone(i)
  \/ \E i \in DOMAIN clearing : ClearCacheDeleteFailed(i)
  \/ \E i \in DOMAIN clearing : ClearCacheRejected(i)

SpecClear == Init /\ [][NextClear]_vars

\* The same clients, which also call isLoaded.
NextIsLoaded ==
  \/ NextClear
  \/ \E year \in Years : IsLoaded(year)

SpecIsLoaded == Init /\ [][NextIsLoaded]_vars

\* ================================================== utterance queries
\* An id is a string, written as the sequence of its digits.  The table holds
\* the records "1", "10" and "9"; no record has the id "7".
RecordIds == {<<1>>, <<1, 0>>, <<9>>}
MissingId == <<7>>

\* SQL NULL (JavaScript null), and the empty string.
Null  == <<-1>>
Empty == <<>>

\* What the prev and next columns may hold.
Links == RecordIds \cup {MissingId, Null, Empty}
Dates == 1..NumDates

\* The year whose partition the queries read; executeQuery finds it in the
\* memory cache.
QueryYear == 1

\* SQL NULL (JavaScript null) where a text is expected.
NullText == "NULL"

\* getUtterance found no row.
NullUtterance ==
  [id |-> Null, prev |-> Null, next |-> Null, date |-> 0,
   kvinna_1 |-> FALSE, kvinna_2 |-> FALSE, kvinna_3 |-> FALSE, person_gender |-> NullText]

\* JavaScript: a string or null used as a condition.
Truthy(v) == v # Null /\ v # Empty

\* `v || null`
OrNull(v) == IF Truthy(v) THEN v ELSE Null

\* mapRowToUtterance: falsy links become null, the tags become booleans, a
\* falsy gender becomes null.
mapRowToUtterance(id, row) ==
  [id |-> id, prev |-> OrNull(row.prev), next |-> OrNull(row.next), date |-> row.date,
   kvinna_1 |-> row.kvinna_1 # 0, kvinna_2 |-> row.kvinna_2 # 0,
   kvinna_3 |-> row.kvinna_3 # 0,
   person_gender |-> IF row.person_gender \in {"", NullText} THEN NullText
                     ELSE row.person_gender]

\* getUtterance: the row with the id, if there is one.
getUtterance(utteranceId) ==
  IF utteranceId \in DOMAIN utterance
    THEN mapRowToUtterance(utteranceId, utterance[utteranceId])
    ELSE NullUtterance

\* What a query step leaves alone: the partition is resident, and the memory
\* hit of executeQuery leaves a queue of one year as it is.
QueryFrame ==
  /\ closedNow' = <<>>
  /\ delivered' = <<>>
  /\ isLoadedResult' = <<>>
  /\ UNCHANGED <<SQL, memoryCache, loadingPromises, lruQueue, store, loads, clearing,
                 recency, cacheDb, utterance>>
  /\ ProviderFrame

\* --------------------------------------------------- getUtteranceChain
\* line 51: the condition of the for loop; the body starts with the call of
\* getUtterance, and the function returns when the condition fails.
ChainLoop(w) ==
  IF w.i < w.count /\ Truthy(w.currentId)
    THEN [w EXCEPT !.pc = "getUtterance"]
    ELSE [w EXCEPT !.pc = "returned"]

\* lines 42-51: the call, up to its first await.
GetUtteranceChain(startId, direction, count) ==
  /\ walk = Idle
  /\ CachedInMemory(QueryYear)
  /\ walk' = ChainLoop([pc |-> "called", fn |-> "getUtteranceChain",
                        startId |-> startId, direction |-> direction, count |-> count,
                        i |-> 0, currentId |-> startId, utterances |-> <<>>,
                        lookups |-> 0])
  /\ QueryFrame

\* ChainNext that follows prev whatever the direction.
ChainNextAlwaysPrev(direction, u) == u.prev

\* line 57
ChainNext(direction, u) == IF direction = "prev" THEN u.prev ELSE u.next

\* lines 52-57, 51, 60: getUtterance returned; the body of the loop, then the
\* condition again.  lookups counts the calls of getUtterance.
ChainResumed(w) ==
  LET u == getUtterance(w.currentId)
  IN  IF u = NullUtterance
        THEN [w EXCEPT !.pc = "returned", !.lookups = @ + 1]
        ELSE ChainLoop([w EXCEPT !.utterances = Append(@, u),
                                 !.currentId = ChainNext(w.direction, u),
                                 !.i = @ + 1,
                                 !.lookups = @ + 1])

\* ChainResumed on a partition that stays resident.
ChainStep ==
  /\ walk.pc = "getUtterance"
  /\ walk.fn = "getUtteranceChain"
  /\ walk' = ChainResumed(walk)
  /\ QueryFrame

\* The caller has the result; another query can be made.
QueryReturn ==
  /\ walk # Idle
  /\ walk.pc = "returned"
  /\ walk' = Idle
  /\ QueryFrame

\* ---------------------------------------------------- getExchangeStart
\* lines 166, 177-178, 213-214: what follows the loop of getExchangeStart:
\* its return, and in getPreviousExchange and getNextExchange the query for
\* the neighbouring exchange.
StartFound(w) ==
  IF w.fn = "getExchangeStart"
    THEN [w EXCEPT !.pc = "returned", !.result = w.utterance]
    ELSE [w EXCEPT !.pc = "executeQuery", !.currentExchangeStart = w.utterance]

\* StartLoop that never follows a prev link.
StartLoopNever(w) == StartFound(w)

\* line 160: the condition of the while loop.
StartLoop(w) ==
  IF Truthy(w.utterance.prev) THEN [w EXCEPT !.pc = "getPrev"] ELSE StartFound(w)

\* lines 153-155 (176-177, 212-213): the call, up to its first await.
ExchangeCall(fn, utteranceId) ==
  /\ walk = Idle
  /\ CachedInMemory(QueryYear)
  /\ walk' = [pc |-> "getUtterance", fn |-> fn, utteranceId |-> utteranceId,
              utterance |-> NullUtterance, currentExchangeStart |-> NullUtterance,
              result |-> NullUtterance, lookups |-> 0]
  /\ QueryFrame

GetExchangeStart(utteranceId) == ExchangeCall("getExchangeStart", utteranceId)

\* lines 155-160: the first getUtterance returned.  lookups counts the calls of
\* getUtterance.
StartFirstResumed(w) ==
  LET u == getUtterance(w.utteranceId)
  IN  IF u = NullUtterance
        THEN [w EXCEPT !.pc = "returned", !.lookups = @ + 1]
        ELSE StartLoop([w EXCEPT !.utterance = u, !.lookups = @ + 1])

\* StartFirstResumed on a partition that stays resident.
StartFirst ==
  /\ walk.pc = "getUtterance"
  /\ walk.fn # "getUtteranceChain"
  /\ walk' = StartFirstResumed(walk)
  /\ QueryFrame

\* lines 161-163, 160: getUtterance of the prev link returned.
StartPrevResumed(w) ==
  LET prevUtterance == getUtterance(w.utterance.prev)
  IN  IF prevUtterance = NullUtterance
        THEN StartFound([w EXCEPT !.lookups = @ + 1])
        ELSE StartLoop([w EXCEPT !.utterance = prevUtterance, !.lookups = @ + 1])

\* StartPrevResumed on a partition that stays resident.
StartPrev ==
  /\ walk.pc = "getPrev"
  /\ walk' = StartPrevResumed(walk)
  /\ QueryFrame

\* A session with the partition of QueryYear resident.
InitQuery ==
  /\ SQL = TRUE
  /\ memoryCache = [y \in Years |-> IF y = QueryYear THEN <<QueryYear, 1>> ELSE None]
  /\ loadingPromises = [y \in Years |-> None]
  /\ lruQueue = <<QueryYear>>
  /\ store = [y \in Years |-> IF y = QueryYear THEN cacheVersion ELSE Absent]
  /\ loads = [p \in Ids |-> NoLoad]
  /\ clearing = <<>>
  /\ recency = <<QueryYear>>
  /\ closedNow = <<>>
  /\ delivered = <<>>
  /\ isLoadedResult = <<>>
  /\ cacheDb = TRUE
  /\ walk = Idle
  /\ loadingStates = [y \in Years |-> NotInMap]
  /\ awaiting = [y \in Years |-> 0]

\* The successor of an id in the text order of the ids, the first after the last.
NextInTable(id) ==
  IF id = <<1>> THEN <<1, 0>> ELSE IF id = <<1, 0>> THEN <<9>> ELSE <<1>>

\* Tables of one date whose prev links are arbitrary and whose next link is
\* null or names the successor.
InitChain ==
  /\ InitQuery
  /\ utterance \in [RecordIds -> [prev : Links, next : Links, date : {1},
                                   kvinna_1 : {0}, kvinna_2 : {0}, kvinna_3 : {0},
                                   person_gender : {"man"}]]
  /\ \A id \in RecordIds : utterance[id].next \in {Null, NextInTable(id)}

NextChain ==
  \/ \E startId \in RecordIds \cup {MissingId, Empty}, direction \in {"prev", "next"},
        count \in 0..MaxCount : GetUtteranceChain(startId, direction, count)
  \/ ChainStep
  \/ \E utteranceId \in RecordIds \cup {MissingId} : GetExchangeStart(utteranceId)
  \/ StartFirst
  \/ walk.pc = "getPrev" /\ walk.lookups < MaxLookups /\ StartPrev
  \/ QueryReturn

\* Every getUtterance called is answered (executeQuery on a resident
\* partition neither blocks nor fails); a getExchangeStart is followed for its
\* first MaxLookups calls of getUtterance.
SpecChain ==
  /\ InitChain
  /\ [][NextChain]_vars
  /\ WF_vars(ChainStep)
  /\ WF_vars(StartFirst)
  /\ WF_vars(walk.pc = "getPrev" /\ walk.lookups < MaxLookups /\ StartPrev)

\* ------------------------------ getPreviousExchange, getNextExchange
GetPreviousExchange(currentUtteranceId) ==
  ExchangeCall("getPreviousExchange", currentUtteranceId)

GetNextExchange(currentUtteranceId) ==
  ExchangeCall("getNextExchange", currentUtteranceId)

\* TextLess that compares the ids as numbers.
TextLessAsNumbers(a, b) ==
  \/ Len(a) < Len(b)
  \/ /\ Len(a) = Len(b)
     /\ \E k \in 1..Len(b) : a[k] < b[k] /\ \A j \in 1..(k - 1) : a[j] = b[j]

\* SQLite: a text value is less than another when it is a proper prefix of it
\* or has the smaller character at the first place where they differ.
TextLess(a, b) ==
  \E k \in 1..Len(b) :
    /\ \A j \in 1..(k - 1) : j <= Len(a) /\ a[j] = b[j]
    /\ k > Len(a) \/ a[k] < b[k]

\* u.date < ? OR (u.date = ? AND u.id < ?), and with the sides swapped the
\* condition of getNextExchange.
RowBefore(id1, date1, id2, date2) ==
  date1 < date2 \/ (date1 = date2 /\ TextLess(id1, id2))

\* WHERE u.prev IS NULL AND ... : the ids of the rows the query matches.
Matching(fn, start) ==
  {id \in DOMAIN utterance :
     /\ utterance[id].prev = Null
     /\ IF fn = "getPreviousExchange"
          THEN RowBefore(id, utterance[id].date, start.id, start.date)
          ELSE RowBefore(start.id, start.date, id, utterance[id].date)}

\* ORDER BY u.date DESC, u.id DESC (ASC, ASC in getNextExchange) LIMIT 1.
FirstRow(fn, ids) ==
  CHOOSE id \in ids :
    \A o \in ids \ {id} :
      IF fn = "getPreviousExchange"
        THEN RowBefore(o, utterance[o].date, id, utterance[id].date)
        ELSE RowBefore(id, utterance[id].date, o, utterance[o].date)

\* lines 180-202 (216-238): the query returned.
ExchangeQuery ==
  /\ walk.pc = "executeQuery"
  /\ LET results == Matching(walk.fn, walk.currentExchangeStart)
         first == FirstRow(walk.fn, results)
     IN  walk' = [walk EXCEPT
                    !.pc = "returned",
                    !.result = IF results = {} THEN NullUtterance
                               ELSE mapRowToUtterance(first, utterance[first])]
  /\ QueryFrame

\* Tables with dates 1..NumDates whose prev links are arbitrary.
InitExchange ==
  /\ InitQuery
  /\ utterance \in [RecordIds -> [prev : Links, next : {Null}, date : Dates,
                                   kvinna_1 : {0}, kvinna_2 : {0}, kvinna_3 : {0},
                                   person_gender : {"man"}]]

NextExchange ==
  \/ \E id \in RecordIds \cup {MissingId} : GetPreviousExchange(id)
  \/ \E id \in RecordIds \cup {MissingId} : GetNextExchange(id)
  \/ StartFirst
  \/ walk.pc = "getPrev" /\ walk.lookups < MaxLookups /\ StartPrev
  \/ ExchangeQuery
  \/ QueryReturn

SpecExchange == InitExchange /\ [][NextExchange]_vars

\* ------------------------------------------------- there and back again
\* The exchange query that leads back over the step of fn.
Opposite(fn) ==
  IF fn = "getNextExchange" THEN "getPreviousExchange" ELSE "getNextExchange"

\* lines 212-213 (176-177) after lines 238 (202): a client that got the record
\* n from getNextExchange(x) calls getPreviousExchange(n.id), and
\* getNextExchange(p.id) with the record p of getPreviousExchange(x); from
\* keeps the first call, with the exchange start it found for x.
TurnBack ==
  /\ walk.pc = "returned"
  /\ walk.fn \in {"getNextExchange", "getPreviousExchange"}
  /\ "from" \notin DOMAIN walk
  /\ walk.result # NullUtterance
  /\ walk' = [pc |-> "getUtterance", fn |-> Opposite(walk.fn),
              utteranceId |-> walk.result.id,
              utterance |-> NullUtterance, currentExchangeStart |-> NullUtterance,
              result |-> NullUtterance, lookups |-> 0,
              from |-> [fn |-> walk.fn, utteranceId |-> walk.utteranceId,
                        start |-> walk.currentExchangeStart]]
  /\ QueryFrame

NextRoundTrip ==
  \/ \E id \in RecordIds : GetPreviousExchange(id)
  \/ \E id \in RecordIds : GetNextExchange(id)
  \/ StartFirst
  \/ walk.pc = "getPrev" /\ walk.lookups < MaxLookups /\ StartPrev
  \/ ExchangeQuery
  \/ TurnBack
  \/ QueryReturn

SpecRoundTrip == InitExchange /\ [][NextRoundTrip]_vars

\* ---------------------- getPreviousKvinnaUtterance ... getNextFemaleUtterance
TaggedQueries ==
  {"getPreviousKvinnaUtterance", "getNextKvinnaUtterance",
   "getPreviousFemaleUtterance", "getNextFemaleUtterance"}

\* lines 307-309 (339-341, 375-377, 407-409): the call, up to its first await.
TaggedCall(fn, currentUtteranceId) ==
  /\ walk = Idle
  /\ CachedInMemory(QueryYear)
  /\ walk' = [pc |-> "getCurrent", fn |-> fn, utteranceId |-> currentUtteranceId,
              currentUtterance |-> NullUtterance, result |-> NullUtterance]
  /\ QueryFrame

\* lines 308-325: getUtterance returned; null for an id of no row, else the
\* query is made.
TaggedCurrent ==
  /\ walk.pc = "getCurrent"
  /\ LET u == getUtterance(walk.utteranceId)
     IN  walk' = IF u = NullUtterance
                   THEN [walk EXCEPT !.pc = "returned"]
                   ELSE [walk EXCEPT !.pc = "taggedQuery", !.currentUtterance = u]
  /\ QueryFrame

\* SQLite LOWER on the gender texts of the tables.
Lower(text) ==
  IF text = "Woman" THEN "woman" ELSE IF text = "KVINNA" THEN "kvinna" ELSE text

\* KvinnaTagged that looks at the first tag only.
KvinnaTaggedFirstOnly(row) == row.kvinna_1 = 1

\* u.kvinna_1 = 1 OR u.kvinna_2 = 1 OR u.kvinna_3 = 1
KvinnaTagged(row) == row.kvinna_1 = 1 \/ row.kvinna_2 = 1 \/ row.kvinna_3 = 1

\* LOWER(p.gender) IN ('woman', 'kvinna'); the LOWER of NULL is NULL, which is
\* in no list.
FemaleSpeaker(row) ==
  /\ row.person_gender # NullText
  /\ Lower(row.person_gender) \in {"woman", "kvinna"}

\* The WHERE clauses of the four queries: the ids of the rows matched.
TaggedMatching(fn, current) ==
  {id \in DOMAIN utterance :
     /\ IF fn \in {"getPreviousKvinnaUtterance", "getNextKvinnaUtterance"}
          THEN KvinnaTagged(utterance[id]) ELSE FemaleSpeaker(utterance[id])
     /\ IF fn \in {"getPreviousKvinnaUtterance", "getPreviousFemaleUtterance"}
          THEN RowBefore(id, utterance[id].date, current.id, current.date)
          ELSE RowBefore(current.id, current.date, id, utterance[id].date)}

\* ORDER BY u.date DESC, u.id DESC (ASC, ASC in the next queries) LIMIT 1.
TaggedFirstRow(fn, ids) ==
  CHOOSE id \in ids :
    \A o \in ids \ {id} :
      IF fn \in {"getPreviousKvinnaUtterance", "getPreviousFemaleUtterance"}
        THEN RowBefore(o, utterance[o].date, id, utterance[id].date)
        ELSE RowBefore(id, utterance[id].date, o, utterance[o].date)

\* lines 311-335 (343-367, 379-403, 411-435): the query returned.
TaggedQuery ==
  /\ walk.pc = "taggedQuery"
  /\ LET results == TaggedMatching(walk.fn, walk.currentUtterance)
         first == TaggedFirstRow(walk.fn, results)
     IN  walk' = [walk EXCEPT
                    !.pc = "returned",
                    !.result = IF results = {} THEN NullUtterance
                               ELSE mapRowToUtterance(first, utterance[first])]
  /\ QueryFrame

\* What a row may hold in its tags and the gender of its speaker.
Profiles ==
  {[kvinna_1 |-> 0, kvinna_2 |-> 0, kvinna_3 |-> 0, person_gender |-> "man"],
   [kvinna_1 |-> 1, kvinna_2 |-> 0, kvinna_3 |-> 0, person_gender |-> "man"],
   [kvinna_1 |-> 0, kvinna_2 |-> 1, kvinna_3 |-> 0, person_gender |-> NullText],
   [kvinna_1 |-> 0, kvinna_2 |-> 0, kvinna_3 |-> 1, person_gender |-> "man"],
   [kvinna_1 |-> 0, kvinna_2 |-> 0, kvinna_3 |-> 0, person_gender |-> "Woman"],
   [kvinna_1 |-> 0, kvinna_2 |-> 0, kvinna_3 |-> 0, person_gender |-> "kvinna"],
   [kvinna_1 |-> 1, kvinna_2 |-> 1, kvinna_3 |-> 1, person_gender |-> "KVINNA"]}

\* Tables with dates 1..NumDates, without links, whose rows have any of the
\* profiles.
InitTagged ==
  /\ InitQuery
  /\ utterance \in [RecordIds -> [prev : {Null}, next : {Null}, date : Dates,
                                   kvinna_1 : {0, 1}, kvinna_2 : {0, 1}, kvinna_3 : {0, 1},
                                   person_gender : {"man", "Woman", "kvinna", "KVINNA", NullText}]]
  /\ \A id \in RecordIds :
       \E profile \in Profiles :
         /\ utterance[id].kvinna_1 = profile.kvinna_1
         /\ utterance[id].kvinna_2 = profile.kvinna_2
         /\ utterance[id].kvinna_3 = profile.kvinna_3
         /\ utterance[id].person_gender = profile.person_gender

NextTagged ==
  \/ \E fn \in TaggedQueries, id \in RecordIds \cup {MissingId} : TaggedCall(fn, id)
  \/ TaggedCurrent
  \/ TaggedQuery
  \/ QueryReturn

SpecTagged == InitTagged /\ [][NextTagged]_vars

\* -------------------------------------------------- getUtteranceContext
\* lines 42-61 as getUtteranceContext awaits them: the loop of
\* getUtteranceChain run to its end from its i-th turn (no table changes while
\* it runs).
RECURSIVE ChainFrom(_, _, _, _)
ChainFrom(currentId, direction, count, i) ==
  IF i < count /\ Truthy(currentId)
    THEN LET u == getUtterance(currentId)
         IN  IF u = NullUtterance
               THEN <<>>
               ELSE <<u>> \o ChainFrom(ChainNext(direction, u), direction, count, i + 1)
    ELSE <<>>

getUtteranceChain(startId, direction, count) == ChainFrom(startId, direction, count, 0)

\* Array.prototype.reverse
Reverse(s) == [k \in 1..Len(s) |-> s[Len(s) + 1 - k]]

\* Reverse that leaves the array as it is.
ReverseNot(s) == s

\* line 90
reverse(s) == Reverse(s)

\* lines 71-82: the call, up to its first await.
GetUtteranceContext(utteranceId, beforeCount, afterCount) ==
  /\ walk = Idle
  /\ CachedInMemory(QueryYear)
  /\ walk' = [pc |-> "getCenter", fn |-> "getUtteranceContext",
              utteranceId |-> utteranceId, beforeCount |-> beforeCount,
              afterCount |-> afterCount, center |-> NullUtterance,
              before |-> <<>>, after |-> <<>>]
  /\ QueryFrame

\* lines 94-101: the condition of the chain after the center, or the return.
ContextAfterOrReturn(w) ==
  IF Truthy(w.center.next) /\ w.afterCount > 0
    THEN [w EXCEPT !.pc = "getAfter"]
    ELSE [w EXCEPT !.pc = "returned"]

\* lines 82-89: getUtterance returned the center; without it the result is
\* empty, with it the chain before it is asked for if it has a prev and
\* beforeCount is positive.
ContextCenter ==
  /\ walk.pc = "getCenter"
  /\ LET center == getUtterance(walk.utteranceId)
     IN  walk' = IF center = NullUtterance
                   THEN [walk EXCEPT !.pc = "returned"]
                   ELSE IF Truthy(center.prev) /\ walk.beforeCount > 0
                     THEN [walk EXCEPT !.pc = "getBefore", !.center = center]
                     ELSE ContextAfterOrReturn([walk EXCEPT !.center = center])
  /\ QueryFrame

\* lines 89-96: the chain before the center returned and is reversed.
ContextBefore ==
  /\ walk.pc = "getBefore"
  /\ walk' = ContextAfterOrReturn(
               [walk EXCEPT !.before = reverse(getUtteranceChain(walk.center.prev, "prev",
                                                                 walk.beforeCount))])
  /\ QueryFrame

\* lines 96-101: the chain after the center returned.
ContextAfter ==
  /\ walk.pc = "getAfter"
  /\ walk' = [walk EXCEPT !.pc = "returned",
                          !.after = getUtteranceChain(walk.center.next, "next",
                                                      walk.afterCount)]
  /\ QueryFrame

NextContext ==
  \/ \E utteranceId \in RecordIds \cup {MissingId},
        beforeCount \in 0..MaxCount, afterCount \in 0..MaxCount :
       GetUtteranceContext(utteranceId, beforeCount, afterCount)
  \/ ContextCenter
  \/ ContextBefore
  \/ ContextAfter
  \/ QueryReturn

SpecContext == InitChain /\ [][NextContext]_vars

\* ======================================= queries on a partition that comes and goes
\* What a traversal holds besides its own fields: wait tells how its pending
\* executeQuery got or awaits the partition ("hit", "join", "start",
\* "delivered"), db is the instance (while awaited, the load), exec the last
\* db.exec made and whether its instance was open, threw and failure the error
\* thrown.
NoExec == [db |-> None, open |-> TRUE]

\* lines 208-214 of executeQuery, line 124 of loadDatabase: the error leaves the
\* traversal, which catches nothing.
Thrown(w, failure) ==
  [w EXCEPT !.pc = "returned", !.wait = "", !.threw = TRUE, !.failure = failure]

\* A traversal awaits a getUtterance, that is an executeQuery.
AwaitsQuery(w) == w.pc \in {"getUtterance", "getPrev"}

\* line 188 with lines 100-119: the traversal w goes on to its next
\* getUtterance, whose executeQuery calls loadDatabase, which returns the
\* resident instance or the promise of the load registered or starts a load;
\* or the traversal has returned.
CallLoadDatabase(w) ==
  IF AwaitsQuery(w)
    THEN /\ ProviderFrame
         /\ \/ /\ LoadHitCall(QueryYear)
               /\ walk' = [w EXCEPT !.wait = "hit", !.db = memoryCache[QueryYear]]
            \/ /\ LoadJoinCall(QueryYear)
               /\ walk' = [w EXCEPT !.wait = "join", !.db = loadingPromises[QueryYear]]
            \/ /\ LoadStartCall(QueryYear)
               /\ walk' = [w EXCEPT !.wait = "start", !.db = NewId(QueryYear)]
    ELSE walk' = w /\ QueryFrame

\* lines 42-51 of getUtteranceChain, with executeQuery up to its await.
QueryChain(startId, direction, count) ==
  /\ walk = Idle
  /\ CallLoadDatabase(ChainLoop([pc |-> "called", fn |-> "getUtteranceChain",
                                 startId |-> startId, direction |-> direction,
                                 count |-> count, i |-> 0, currentId |-> startId,
                                 utterances |-> <<>>, lookups |-> 0,
                                 wait |-> "", db |-> None, exec |-> NoExec,
                                 threw |-> FALSE, failure |-> "", loaded |-> 0]))

\* lines 153-155 of getExchangeStart, with executeQuery up to its await.
QueryExchangeStart(utteranceId) ==
  /\ walk = Idle
  /\ CallLoadDatabase([pc |-> "getUtterance", fn |-> "getExchangeStart",
                       utteranceId |-> utteranceId, utterance |-> NullUtterance,
                       currentExchangeStart |-> NullUtterance,
                       result |-> NullUtterance, lookups |-> 0,
                       wait |-> "", db |-> None, exec |-> NoExec,
                       threw |-> FALSE, failure |-> "", loaded |-> 0])

\* The traversal awaits the load p that its loadDatabase call started / joined.
Awaits(kind, p) ==
  walk # Idle /\ "wait" \in DOMAIN walk /\ walk.wait = kind /\ walk.db = p

\* lines 119-125: the loadDatabase call of the traversal, which started the
\* load p, resumes; it returns the instance or rethrows.  loaded counts the
\* loads awaited.
QueryLoadSettled(p) ==
  /\ Awaits("start", p)
  /\ LoadSettledCall(p)
  /\ ProviderFrame
  /\ walk' = IF Outcome(p).ok
               THEN [walk EXCEPT !.wait = "delivered", !.loaded = @ + 1]
               ELSE Thrown([walk EXCEPT !.loaded = @ + 1], "load")

\* lines 110-112: the promise of the load p, which the loadDatabase call of the
\* traversal returned, has settled.
QueryJoinSettled(p) ==
  /\ Awaits("join", p)
  /\ JoinSettledCall(p)
  /\ ProviderFrame
  /\ walk' = IF Outcome(p).ok
               THEN [walk EXCEPT !.wait = "delivered", !.loaded = @ + 1]
               ELSE Thrown([walk EXCEPT !.loaded = @ + 1], "load")

\* An instance is open from its creation until close() is called on it, which
\* the manager does only as it removes it from the memory cache.
IsOpen(db) == memoryCache[db[1]] = db

\* The continuation of the traversal after its getUtterance.
Resumed(w) ==
  IF w.fn = "getUtteranceChain" THEN ChainResumed(w)
  ELSE IF w.pc = "getUtterance" THEN StartFirstResumed(w)
  ELSE StartPrevResumed(w)

\* lines 188-214, then getUtterance and the traversal: executeQuery resumes
\* with the instance and calls db.exec, which throws on a closed instance;
\* with the rows the traversal goes on to its next getUtterance or returns.
QueryExec ==
  /\ walk # Idle
  /\ "wait" \in DOMAIN walk
  /\ walk.wait \in {"hit", "delivered"}
  /\ AwaitsQuery(walk)
  /\ LET w == [walk EXCEPT !.exec = [db |-> walk.db, open |-> IsOpen(walk.db)],
                           !.wait = ""]
     IN  IF IsOpen(walk.db)
           THEN CallLoadDatabase(Resumed(w))
           ELSE walk' = Thrown(w, "exec") /\ QueryFrame

\* The table of the queried year: the chain "1" -> "10" -> "9".
ChainTable ==
  [id \in RecordIds |->
     [prev |-> IF id = <<1>> THEN Null ELSE IF id = <<1, 0>> THEN <<1>> ELSE <<1, 0>>,
      next |-> IF id = <<9>> THEN Null ELSE NextInTable(id),
      date |-> 1, kvinna_1 |-> 0, kvinna_2 |-> 0, kvinna_3 |-> 0,
      person_gender |-> "man"]]

\* A session with as many partitions resident as the memory cache holds, the
\* one of QueryYear the least recently used, all of them stored in IndexedDB.
InitReload ==
  /\ SQL = TRUE
  /\ memoryCache = [y \in Years |-> IF y <= maxCachedDatabases THEN <<y, 1>> ELSE None]
  /\ loadingPromises = [y \in Years |-> None]
  /\ lruQueue = [i \in 1..maxCachedDatabases |-> i]
  /\ store = [y \in Years |-> IF y <= maxCachedDatabases THEN cacheVersion ELSE Absent]
  /\ loads = [p \in Ids |-> NoLoad]
  /\ clearing = <<>>
  /\ recency = [i \in 1..maxCachedDatabases |-> i]
  /\ closedNow = <<>>
  /\ delivered = <<>>
  /\ isLoadedResult = <<>>
  /\ cacheDb = TRUE
  /\ walk = Idle
  /\ loadingStates = [y \in Years |-> NotInMap]
  /\ awaiting = [y \in Years |-> 0]
  /\ utterance = ChainTable

\* The load p belongs to a client other than the traversal.
OthersLoad(p) == ~Awaits("start", p)

\* A traversal of the year QueryYear while other clients load a year when no
\* load is in flight and clear the cache of the year QueryYear.  sql.js is
\* initialised and the IndexedDB handle is set.
NextReload ==
  \/ \E startId \in {<<1>>}, direction \in {"next"}, count \in {MaxCount} :
       QueryChain(startId, direction, count)
  \/ \E utteranceId \in {<<9>>} : QueryExchangeStart(utteranceId)
  \/ \E p \in Live : QueryLoadSettled(p)
  \/ \E p \in Live : QueryJoinSettled(p)
  \/ QueryExec
  \/ QueryReturn
  \/ \E year \in Years : Live = {} /\ LoadStart(year)
  \/ \E p \in Live : OthersLoad(p) /\ LoadSettled(p)
  \/ \E p \in Live : SqlReady(p)
  \/ \E p \in Live : CacheGetHit(p)
  \/ \E p \in Live : CacheGetMiss(p)
  \/ \E p \in Live : CacheGetFailed(p)
  \/ \E p \in Live : FetchDone(p)
  \/ \E p \in Live : FetchFailed(p)
  \/ \E p \in Live : CacheSetDone(p)
  \/ \E p \in Live : CacheSetFailed(p)
  \/ Len(clearing) < MaxClears /\ ClearCacheYear(QueryYear)
  \/ \E i \in DOMAIN clearing : ClearCacheDone(i)

SpecReload == InitReload /\ [][NextReload]_vars

\* ========================================================== ReaderPage
\* The years 1867..2024 of the archive are numbered 1..NumYears.
FirstYear == 1
LastYear == NumYears

\* The partition of a year cannot be loaded: executeQuery throws.
Unavailable == <<"unavailable">>

\* The utterance id of the route is missing (undefined).
NoUtteranceId == Empty

TaggedHandlers == {"handlePreviousKvinna", "handleNextKvinna"}

\* lines 481 / 512: the query a handler makes in the year of the page.
QueryOf(handler) ==
  IF handler = "handlePreviousKvinna"
    THEN "getPreviousKvinnaUtterance" ELSE "getNextKvinnaUtterance"

\* lines 488 / 519: tryYear-- / tryYear++
NextTryYear(handler, tryYear) ==
  IF handler = "handlePreviousKvinna" THEN tryYear - 1 ELSE tryYear + 1

\* InScanRange that leaves out the last year of the range.
InScanRangeShort(handler, tryYear) ==
  IF handler = "handlePreviousKvinna" THEN tryYear > FirstYear ELSE tryYear < LastYear

\* lines 488 / 519: tryYear >= 1867 / tryYear <= 2024
InScanRange(handler, tryYear) ==
  IF handler = "handlePreviousKvinna" THEN tryYear >= FirstYear ELSE tryYear <= LastYear

\* getLastKvinnaUtterance / getFirstKvinnaUtterance on the table of a year:
\* WHERE (kvinna_1 = 1 OR kvinna_2 = 1 OR kvinna_3 = 1)
\* ORDER BY date DESC, id DESC / ASC, ASC  LIMIT 1.
EdgeKvinnaUtterance(handler, table) ==
  LET ids == {id \in DOMAIN table : KvinnaTagged(table[id])}
      first == CHOOSE id \in ids :
                 \A o \in ids \ {id} :
                   IF handler = "handlePreviousKvinna"
                     THEN RowBefore(o, table[o].date, id, table[id].date)
                     ELSE RowBefore(id, table[id].date, o, table[o].date)
  IN  IF ids = {} THEN NullUtterance ELSE mapRowToUtterance(first, table[first])

\* What a handler holds when it has ended.
HandlerEnded(handler, year, navigated) ==
  [pc |-> "done", handler |-> handler, year |-> year, tryYear |-> year,
   seen |-> <<>>, navigated |-> navigated, result |-> NullUtterance]

\* lines 477-481 (508-512): the handler returns at once without an utterance
\* id; else it calls the query of the year of the page, which runs up to its
\* first await.
HandleKvinna(handler, year, utteranceId) ==
  /\ walk = Idle
  /\ walk' = IF utteranceId = NoUtteranceId
               THEN HandlerEnded(handler, year, <<>>)
               ELSE [pc |-> "getCurrent", fn |-> QueryOf(handler),
                     utteranceId |-> utteranceId, currentUtterance |-> NullUtterance,
                     result |-> NullUtterance, handler |-> handler, year |-> year,
                     tryYear |-> year, seen |-> <<>>, navigated |-> <<>>]
  /\ QueryFrame

\* lines 488-500 (519-531): the loop goes on to the year tryYear, or ends.
ScanFrom(w, tryYear) ==
  IF InScanRange(w.handler, tryYear)
    THEN [w EXCEPT !.pc = "scan", !.tryYear = tryYear]
    ELSE [w EXCEPT !.pc = "done"]

\* lines 482-488 (513-519): the query of the year of the page returned.
KvinnaResumed ==
  /\ walk.pc = "returned"
  /\ walk.fn \in TaggedQueries
  /\ walk' = IF walk.result # NullUtterance
               THEN [walk EXCEPT !.pc = "done",
                       !.navigated = <<[year |-> walk.year, id |-> walk.result.id]>>]
               ELSE ScanFrom(walk, NextTryYear(walk.handler, walk.year))
  /\ QueryFrame

\* lines 489-499 (520-530): the query of the year tryYear returned or threw;
\* partition is the table of that year, or Unavailable.
KvinnaScan(partition) ==
  /\ walk.pc = "scan"
  /\ LET found == IF partition = Unavailable THEN NullUtterance
                  ELSE EdgeKvinnaUtterance(walk.handler, partition)
         w == [walk EXCEPT !.seen = Append(@, [year |-> walk.tryYear,
                                               partition |-> partition])]
     IN  walk' = IF found # NullUtterance
                   THEN [w EXCEPT !.pc = "done",
                           !.navigated = Append(@, [year |-> walk.tryYear,
                                                    id |-> found.id])]
                   ELSE ScanFrom(w, NextTryYear(walk.handler, walk.tryYear))
  /\ QueryFrame

\* The handler has returned.
HandlerDone ==
  /\ walk.pc = "done"
  /\ walk' = Idle
  /\ QueryFrame

\* The tables of the years other than the year of the page: two records whose
\* ids are in one order as texts and in the other as numbers, with any dates
\* and at most one tag each.
ScanIds == {<<1, 0>>, <<9>>}
ScanTags == {<<0, 0, 0>>, <<1, 0, 0>>, <<0, 1, 0>>, <<0, 0, 1>>}
ScanRows ==
  {[prev |-> Null, next |-> Null, date |-> d, kvinna_1 |-> t[1], kvinna_2 |-> t[2],
    kvinna_3 |-> t[3], person_gender |-> "man"] : d \in Dates, t \in ScanTags}
ScanTables == [ScanIds -> ScanRows]

\* The year of the page has a table of one date whose rows have the first tag
\* or none.
InitPage ==
  /\ InitQuery
  /\ utterance \in [RecordIds -> [prev : {Null}, next : {Null}, date : {1},
                                   kvinna_1 : {0, 1}, kvinna_2 : {0}, kvinna_3 : {0},
                                   person_gender : {"man"}]]

NextPage ==
  \/ \E handler \in TaggedHandlers, year \in FirstYear..LastYear,
        utteranceId \in RecordIds \cup {MissingId, NoUtteranceId} :
       HandleKvinna(handler, year, utteranceId)
  \/ TaggedCurrent
  \/ TaggedQuery
  \/ KvinnaResumed
  \/ \E partition \in ScanTables \cup {Unavailable} : KvinnaScan(partition)
  \/ HandlerDone

SpecPage == InitPage /\ [][NextPage]_vars

\* ------------------------------------------ handlePrevious, handleNext
ExchangeHandlers == {"handlePrevious", "handleNext"}

\* lines 395 / 422: the query a handler makes in the year of the page.
ExchangeQueryOf(handler) ==
  IF handler = "handlePrevious" THEN "getPreviousExchange" ELSE "getNextExchange"

\* lines 401 / 428: year - 1 / year + 1
NeighbourYear(handler, year) ==
  IF handler = "handlePrevious" THEN year - 1 ELSE year + 1

\* ORDER BY u.date ASC, u.id ASC LIMIT 1 (DESC, DESC for "last") over all the
\* rows of a table: the id of the row, for a table that has rows.
EdgeRow(edge, table) ==
  CHOOSE id \in DOMAIN table :
    \A o \in DOMAIN table \ {id} :
      IF edge = "first"
        THEN RowBefore(id, table[id].date, o, table[o].date)
        ELSE RowBefore(o, table[o].date, id, table[id].date)

\* getFirstUtterance on the table of a year.
getFirstUtterance(table) ==
  IF DOMAIN table = {} THEN NullUtterance
  ELSE mapRowToUtterance(EdgeRow("first", table), table[EdgeRow("first", table)])

\* getLastUtterance on the table of a year.
getLastUtterance(table) ==
  IF DOMAIN table = {} THEN NullUtterance
  ELSE mapRowToUtterance(EdgeRow("last", table), table[EdgeRow("last", table)])

\* A table without rows.
NoRows == <<>>

\* A call that does not return.
NeverReturns == [returns |-> FALSE]

\* lines 160-166: the loop of getExchangeStart on a table from the record u,
\* run to its end.  A loop that has followed as many prev links as the table
\* has rows has come to a row a second time and goes on for ever.
RECURSIVE StartLoopIn(_, _, _)
StartLoopIn(table, u, followed) ==
  IF ~Truthy(u.prev) THEN u
  ELSE IF u.prev \notin DOMAIN table THEN u
  ELSE IF followed = Cardinality(DOMAIN table) THEN NeverReturns
  ELSE StartLoopIn(table, mapRowToUtterance(u.prev, table[u.prev]), followed + 1)

\* lines 292-299: getLastUtterance, then getExchangeStart of its id.
getLastExchange(table) ==
  IF getLastUtterance(table) = NullUtterance THEN NullUtterance
  ELSE StartLoopIn(table, getLastUtterance(table), 0)

\* lines 391-395 (418-422): the handler returns at once without an utterance
\* id; else it calls the query of the year of the page, which runs up to its
\* first await.
HandleExchange(handler, year, utteranceId) ==
  /\ walk = Idle
  /\ walk' = IF utteranceId = NoUtteranceId
               THEN HandlerEnded(handler, year, <<>>)
               ELSE [pc |-> "getUtterance", fn |-> ExchangeQueryOf(handler),
                     utteranceId |-> utteranceId, utterance |-> NullUtterance,
                     currentExchangeStart |-> NullUtterance,
                     result |-> NullUtterance, lookups |-> 0,
                     handler |-> handler, year |-> year, tryYear |-> year,
                     seen |-> <<>>, navigated |-> <<>>]
  /\ QueryFrame

\* lines 397-403 (424-430): the query of the year of the page returned; the
\* handler navigates, or calls the query of the neighbouring year.
ExchangeResumed ==
  /\ walk.pc = "returned"
  /\ walk.fn \in {"getPreviousExchange", "getNextExchange"}
  /\ walk' = IF walk.result # NullUtterance
               THEN [walk EXCEPT !.pc = "done",
                       !.navigated = <<[year |-> walk.year, id |-> walk.result.id]>>]
               ELSE [walk EXCEPT !.pc = "edge",
                       !.tryYear = NeighbourYear(walk.handler, walk.year)]
  /\ QueryFrame

\* lines 403-409 (430-436): getLastExchange / getFirstUtterance of the
\* neighbouring year returned or threw, or does not return; partition is the
\* table of that year, which is not available when its load fails, as that of
\* a year the archive does not have always does.
EdgeExchange(available, partition) ==
  /\ walk.pc = "edge"
  /\ walk.tryYear \notin FirstYear..LastYear => ~available
  /\ ~available => partition = NoRows
  /\ LET found == IF ~available THEN NullUtterance
                  ELSE IF walk.handler = "handlePrevious"
                    THEN getLastExchange(partition)
                    ELSE getFirstUtterance(partition)
         w == [walk EXCEPT !.seen = <<[year |-> walk.tryYear, available |-> available,
                                       partition |-> partition]>>]
     IN  walk' = IF found = NeverReturns THEN [w EXCEPT !.pc = "getPrev"]
                 ELSE IF found = NullUtterance THEN [w EXCEPT !.pc = "done"]
                 ELSE [w EXCEPT !.pc = "done",
                         !.navigated = <<[year |-> walk.tryYear, id |-> found.id]>>]
  /\ QueryFrame

\* The tables of the neighbouring years: no, one or two records with any
\* dates, whose prev is null or names a record of the two.
EdgeRows ==
  {[prev |-> p, next |-> Null, date |-> d, kvinna_1 |-> 0, kvinna_2 |-> 0,
    kvinna_3 |-> 0, person_gender |-> "man"] : p \in ScanIds \cup {Null}, d \in Dates}
EdgeTables == UNION {[ids -> EdgeRows] : ids \in SUBSET ScanIds}

\* The year of the page has a table of one date whose rows start an exchange
\* or reply to the record "1".
InitBoundary ==
  /\ InitQuery
  /\ utterance \in [RecordIds -> [prev : {Null, <<1>>}, next : {Null}, date : {1},
                                   kvinna_1 : {0}, kvinna_2 : {0}, kvinna_3 : {0},
                                   person_gender : {"man"}]]

NextBoundary ==
  \/ \E handler \in ExchangeHandlers, year \in FirstYear..LastYear,
        utteranceId \in RecordIds \cup {MissingId, NoUtteranceId} :
       HandleExchange(handler, year, utteranceId)
  \/ StartFirst
  \/ walk.pc = "getPrev" /\ "seen" \in DOMAIN walk /\ walk.seen = <<>>
       /\ walk.lookups < MaxLookups /\ StartPrev
  \/ ExchangeQuery
  \/ ExchangeResumed
  \/ \E available \in BOOLEAN, partition \in EdgeTables :
       EdgeExchange(available, partition)
  \/ HandlerDone

SpecBoundary == InitBoundary /\ [][NextBoundary]_vars

\* =================================================== DatabaseProvider
\* lines 24-29: the entry of a year whose load was called for.
LoadingState == [state |-> "loading", progress |-> 0, error |-> ""]

\* lines 37-42: the entry made by the progress callback.
DownloadingState(percentage) == [state |-> "loading", progress |-> percentage, error |-> ""]

\* lines 50-55
SuccessState == [state |-> "success", progress |-> 100, error |-> ""]

\* ErrorState that leaves the entry at loading.
ErrorStateLoading(message) == [state |-> "loading", progress |-> 0, error |-> message]

\* lines 64-70
ErrorState(message) == [state |-> "error", progress |-> 0, error |-> message]

\* line 69: error instanceof Error ? error.message : 'Unknown error'.  The
\* error of a load that failed in initSqlJs is the event of the script tag, no
\* Error; the other errors are Errors with a message.
ErrorMessage(p) ==
  IF loads[p].failedAt = "initSqlJs" THEN "Unknown error"
  ELSE IF loads[p].failedAt = "fetch" THEN "Failed to load database for year"
  ELSE "openDB failed"

\* lines 20-34: the provider's loadDatabase sets the loading state and calls
\* databaseManager.loadDatabase, which runs up to its first await or returns
\* the cached instance.
ProviderLoadDatabaseCall(year) ==
  /\ loadingStates' = [loadingStates EXCEPT ![year] = LoadingState]
  /\ \/ LoadHitCall(year) /\ awaiting' = [awaiting EXCEPT ![year] = @ + 1]
     \/ LoadJoinCall(year) /\ UNCHANGED awaiting
     \/ LoadStartCall(year) /\ UNCHANGED awaiting

\* ProviderLoadDatabaseCall by a component other than the useDatabase hook.
ProviderLoadDatabase(year) == ProviderLoadDatabaseCall(year) /\ UNCHANGED walk

\* lines 34-45: the progress callback of the call that started the load, made
\* by fetchDatabase while it reads the response.
ProviderProgress(p, percentage) ==
  /\ loads[p].pc = "fetch"
  /\ loadingStates' = [loadingStates EXCEPT ![p[1]] = DownloadingState(percentage)]
  /\ closedNow' = <<>>
  /\ delivered' = <<>>
  /\ isLoadedResult' = <<>>
  /\ UNCHANGED <<SQL, memoryCache, loadingPromises, lruQueue, store, loads, clearing,
                 recency, cacheDb, utterance, walk, awaiting>>

\* lines 47-59: a call that got the cached instance resumes.
ProviderHitResumed(year) ==
  /\ awaiting[year] > 0
  /\ awaiting' = [awaiting EXCEPT ![year] = @ - 1]
  /\ loadingStates' = [loadingStates EXCEPT ![year] = SuccessState]
  /\ closedNow' = <<>>
  /\ delivered' = <<>>
  /\ isLoadedResult' = <<>>
  /\ UNCHANGED <<SQL, memoryCache, loadingPromises, lruQueue, store, loads, clearing,
                 recency, cacheDb, utterance, walk>>

\* lines 47-75: the state set when the awaited load p has settled.
SettledState(p) ==
  IF Outcome(p).ok THEN SuccessState ELSE ErrorState(ErrorMessage(p))

\* lines 34, 47-75: the call that started the load p resumes in the manager
\* and then in the provider.
ProviderLoadSettledCall(p) ==
  /\ LoadSettledCall(p)
  /\ loadingStates' = [loadingStates EXCEPT ![p[1]] = SettledState(p)]
  /\ UNCHANGED awaiting

\* ProviderLoadSettledCall for a component other than the useDatabase hook.
ProviderLoadSettled(p) == ProviderLoadSettledCall(p) /\ UNCHANGED walk

\* lines 34, 47-75: a call that was given the promise of the load p resumes.
ProviderJoinSettledCall(p) ==
  /\ JoinSettledCall(p)
  /\ loadingStates' = [loadingStates EXCEPT ![p[1]] = SettledState(p)]
  /\ UNCHANGED awaiting

\* ProviderJoinSettledCall for a component other than the useDatabase hook.
ProviderJoinSettled(p) == ProviderJoinSettledCall(p) /\ UNCHANGED walk

\* progress.percentage
Percentages == {0, 50, 100}

\* A session that finds what an earlier session left in IndexedDB for the
\* year QueryYear.
InitProvider ==
  /\ InitStored
  /\ \A y \in Years \ {QueryYear} : store[y] = Absent

\* Components that load the year QueryYear through the provider, with up to
\* MaxJoiners more calls waiting on a load and MaxAwaiting calls for the
\* resident year not yet resumed.
NextProvider ==
  \/ \E year \in {QueryYear} :
       /\ CachedInMemory(year) => awaiting[year] < MaxAwaiting
       /\ ~CachedInMemory(year) /\ AlreadyLoading(year)
            => loads[loadingPromises[year]].joiners < MaxJoiners
       /\ ~CachedInMemory(year) /\ ~AlreadyLoading(year) => Cardinality(Live) < MaxLoads
       /\ ProviderLoadDatabase(year)
  \/ \E p \in Live, percentage \in Percentages : ProviderProgress(p, percentage)
  \/ \E year \in {QueryYear} : ProviderHitResumed(year)
  \/ \E p \in Live : ProviderLoadSettled(p)
  \/ \E p \in Live : ProviderJoinSettled(p)
  \/ InternalSteps

SpecProvider == InitProvider /\ [][NextProvider]_vars

\* ========================================================== useDatabase
\* The state of a component that uses the hook: the year it was last rendered
\* with, the three states of the hook, whether the effect of that render has
\* yet to run, and the effects that await their loadDatabase call, each with
\* its load, how it got it, and its cancelled flag.
\* lines 13-15: the states of the hook at its first render.
Mounted(year) ==
  [pc |-> "hook", year |-> year, database |-> None, loading |-> "idle",
   error |-> "", pending |-> TRUE, effects |-> <<>>]

Mount(year) ==
  /\ walk = Idle
  /\ walk' = Mounted(year)
  /\ QueryFrame

\* lines 45-47: the cleanup of the effects of the earlier renders.
Cancelled(effects) == [i \in DOMAIN effects |-> [effects[i] EXCEPT !.cancelled = TRUE]]

\* line 48: the component is rendered with another year once the effect of its
\* last render has run; the cleanup of that effect runs.
SetYear(year) ==
  /\ walk.pc = "hook"
  /\ ~walk.pending
  /\ year # walk.year
  /\ walk' = [walk EXCEPT !.year = year, !.pending = TRUE,
                          !.effects = Cancelled(walk.effects)]
  /\ QueryFrame

\* lines 18-24: the effect runs and finds the year loaded.
EffectLoaded ==
  /\ walk.pc = "hook"
  /\ walk.pending
  /\ isLoaded(walk.year)
  /\ walk' = [walk EXCEPT !.pending = FALSE, !.loading = "success"]
  /\ QueryFrame

\* lines 18-30: the effect runs and finds the year not loaded; it calls
\* loadDatabase of the provider, which is given the promise of the load
\* registered, or starts a load.
EffectLoads ==
  /\ walk.pc = "hook"
  /\ walk.pending
  /\ ~isLoaded(walk.year)
  /\ ProviderLoadDatabaseCall(walk.year)
  /\ walk' = [walk EXCEPT
                !.pending = FALSE, !.loading = "loading", !.error = "",
                !.effects = Append(@,
                  IF AlreadyLoading(walk.year)
                    THEN [load |-> loadingPromises[walk.year], kind |-> "join",
                          cancelled |-> FALSE]
                    ELSE [load |-> NewId(walk.year), kind |-> "start",
                          cancelled |-> FALSE])]

\* lines 30-40: the loadDatabase call of the i-th effect has settled with the
\* result r; the effect sets the states unless it was cancelled.
EffectResumed(w, i, r, message) ==
  LET rest == [w EXCEPT !.effects = Splice(@, i)]
  IN  IF w.effects[i].cancelled THEN rest
      ELSE IF r.ok THEN [rest EXCEPT !.database = r.val, !.loading = "success"]
      ELSE [rest EXCEPT !.error = message, !.loading = "error"]

\* The effect that started the load p resumes.
HookLoadSettled(i) ==
  /\ walk.pc = "hook"
  /\ i \in DOMAIN walk.effects
  /\ walk.effects[i].kind = "start"
  /\ ProviderLoadSettledCall(walk.effects[i].load)
  /\ walk' = EffectResumed(walk, i, OwnerResult(walk.effects[i].load),
                           ErrorMessage(walk.effects[i].load))

\* An effect that was given the promise of the load p resumes.
HookJoinSettled(i) ==
  /\ walk.pc = "hook"
  /\ i \in DOMAIN walk.effects
  /\ walk.effects[i].kind = "join"
  /\ ProviderJoinSettledCall(walk.effects[i].load)
  /\ walk' = EffectResumed(walk, i, Outcome(walk.effects[i].load),
                           ErrorMessage(walk.effects[i].load))

\* The years the component is rendered with.
HookYears == {QueryYear, QueryYear + 1}

\* A session with the partition of QueryYear resident.
InitHook == InitQuery /\ utterance = ChainTable

\* One component that uses the hook, rendered with the years of HookYears,
\* with at most MaxLoads effects awaiting their call, while the cache of the
\* year QueryYear is cleared.
NextHook ==
  \/ \E year \in HookYears : Mount(year)
  \/ \E year \in HookYears : SetYear(year)
  \/ EffectLoaded
  \/ walk.pc = "hook" /\ Len(walk.effects) < MaxLoads /\ EffectLoads
  \/ \E i \in 1..MaxLoads : HookLoadSettled(i)
  \/ \E i \in 1..MaxLoads : HookJoinSettled(i)
  \/ \E p \in Live : SqlReady(p)
  \/ \E p \in Live : CacheGetHit(p)
  \/ \E p \in Live : CacheGetMiss(p)
  \/ \E p \in Live : CacheGetFailed(p)
  \/ \E p \in Live : FetchDone(p)
  \/ \E p \in Live : FetchFailed(p)
  \/ \E p \in Live : CacheSetDone(p)
  \/ \E p \in Live : CacheSetFailed(p)
  \/ Len(clearing) < MaxClears /\ ClearCacheYear(QueryYear)
  \/ \E i \in DOMAIN clearing : ClearCacheDone(i)

SpecHook == InitHook /\ [][NextHook]_vars

\* ======================================================= SearchEngine
\* Texts are sequences of characters.  A search parameter that is not given is
\* undefined: Undefined for a text or a list, UndefinedNumber for a number,
\* "undefined" for a boolean (given: "true" or "false").
Undefined == <<"undefined">>
UndefinedNumber == -1

\* config.maxSearchResults
maxSearchResults == 100

\* String.prototype.toLowerCase, character by character.  "OE" and "oe" are
\* the capital and the small letter O with diaeresis, one character each.
LowerChar(c) ==
  IF c = "A" THEN "a" ELSE IF c = "B" THEN "b" ELSE IF c = "OE" THEN "oe" ELSE c
toLowerCase(text) == [k \in 1..Len(text) |-> LowerChar(text[k])]

\* \s of a regular expression
WhiteSpace(c) == c = " "

\* String.prototype.trim
RECURSIVE trimStart(_)
trimStart(text) ==
  IF text # <<>> /\ WhiteSpace(Head(text)) THEN trimStart(Tail(text)) ELSE text

trim(text) == Reverse(trimStart(Reverse(trimStart(text))))

\* String.prototype.split(/\s+/): the pieces between the runs of white space,
\* the empty pieces at both ends included; piece is the piece being read.
RECURSIVE SplitFrom(_, _)
SplitFrom(text, piece) ==
  IF text = <<>> THEN <<piece>>
  ELSE IF WhiteSpace(Head(text))
    THEN <<piece>> \o SplitFrom(trimStart(text), <<>>)
    ELSE SplitFrom(Tail(text), Append(piece, Head(text)))

split(text) == SplitFrom(text, <<>>)

\* lines 147-153
tokenize(query) == SelectSeq(split(trim(toLowerCase(query))), LAMBDA token : Len(token) > 0)

\* JavaScript truthiness of a text, of a number and of a list.
TruthyText(text) == text # Undefined /\ text # <<>>
TruthyNumber(n) == n # UndefinedNumber /\ n # 0

\* A condition of the WHERE clause with its binding.
Condition(column, op, value) == [column |-> column, op |-> op, value |-> value]

\* lines 75-83: one LIKE condition for each token.
LikeConditions(query) ==
  IF TruthyText(query) /\ trim(query) # <<>>
    THEN LET tokens == tokenize(query)
         IN  [k \in 1..Len(tokens) |->
                Condition("content", "LIKE", <<"%">> \o tokens[k] \o <<"%">>)]
    ELSE <<>>

\* TagCondition that takes a tag given as false for a tag not given.
TagConditionTrueOnly(column, tag) ==
  IF tag = "true" THEN <<Condition(column, "=", 1)>> ELSE <<>>

\* lines 104-120: a tag that is given is compared with 1 or 0.
TagCondition(column, tag) ==
  IF tag # "undefined"
    THEN <<Condition(column, "=", IF tag = "true" THEN 1 ELSE 0)>>
    ELSE <<>>

\* lines 59-140: the conditions added to WHERE 1=1 in their order, the order
\* and the limit.
buildQuery(params) ==
  [where |->
     LikeConditions(params.query)
     \o (IF params.party # Undefined /\ Len(params.party) > 0
           THEN <<Condition("person_party", "IN", params.party)>> ELSE <<>>)
     \o (IF params.gender # "undefined" /\ params.gender # ""
           THEN <<Condition("person_gender", "LOWER=", params.gender)>> ELSE <<>>)
     \o (IF params.speaker # UndefinedNumber
           THEN <<Condition("person_id", "=", params.speaker)>> ELSE <<>>)
     \o TagCondition("kvinna_1", params.kvinna_1)
     \o TagCondition("kvinna_2", params.kvinna_2)
     \o TagCondition("kvinna_3", params.kvinna_3)
     \o (IF TruthyNumber(params.dateFrom)
           THEN <<Condition("date", ">=", params.dateFrom)>> ELSE <<>>)
     \o (IF TruthyNumber(params.dateTo)
           THEN <<Condition("date", "<=", params.dateTo)>> ELSE <<>>),
   orderBy |-> <<"date", "id">>,
   limit |-> maxSearchResults]

\* SQLite compares the characters of LIKE without regard to case in ASCII only.
LikeChar(c) == IF c = "A" THEN "a" ELSE IF c = "B" THEN "b" ELSE c

\* SQLite LIKE: % in the pattern stands for any text, _ for any one character.
\* LikeUpTo is the set of the lengths of the beginnings of the text that the
\* first k characters of the pattern match.
RECURSIVE LikeUpTo(_, _, _)
LikeUpTo(pattern, text, k) ==
  IF k = 0 THEN {0}
  ELSE IF pattern[k] = "%"
    THEN {j \in 0..Len(text) : \E i \in LikeUpTo(pattern, text, k - 1) : i <= j}
  ELSE {i + 1 : i \in {i \in LikeUpTo(pattern, text, k - 1) :
                         /\ i < Len(text)
                         /\ \/ pattern[k] = "_"
                            \/ LikeChar(pattern[k]) = LikeChar(text[i + 1])}}

Like(pattern, text) == Len(text) \in LikeUpTo(pattern, text, Len(pattern))

\* A row satisfies a condition; a comparison with NULL does not hold.
Holds(condition, row) ==
  LET field == row[condition.column]
  IN  CASE condition.op = "LIKE"   -> Like(condition.value, field)
        [] condition.op = "IN"     ->
             field # NullText /\ \E k \in DOMAIN condition.value : condition.value[k] = field
        [] condition.op = "LOWER=" ->
             field # NullText /\ Lower(field) = Lower(condition.value)
        [] condition.op = "="      -> field = condition.value
        [] condition.op = ">="     -> field >= condition.value
        [] condition.op = "<="     -> field <= condition.value

\* ORDER BY u.date ASC, u.id ASC: the ids in their order.
Ranked(ids) ==
  {<<Cardinality({o \in ids : RowBefore(o, utterance[o].date, id, utterance[id].date)}),
     id>> : id \in ids}

ByRank(ranked) ==
  [k \in 1..Cardinality(ranked) |-> (CHOOSE row \in ranked : row[1] = k - 1)[2]]

OrderedRows(ids) == ByRank(Ranked(ids))

\* LIMIT
Limit(rows, n) == SubSeq(rows, 1, IF Len(rows) < n THEN Len(rows) ELSE n)

\* Limit of one row less.
LimitOneLess(rows, n) == Limit(rows, n - 1)

\* LIMIT ${config.maxSearchResults}
LimitRows(rows, n) == Limit(rows, n)

\* databaseManager.executeQuery of the statement built: the ids of the rows
\* (each row of utterance joined with the row of its person).
SearchRows(sql) ==
  LimitRows(OrderedRows({id \in DOMAIN utterance :
                           \A k \in DOMAIN sql.where : Holds(sql.where[k], utterance[id])}),
            sql.limit)

\* The three dots of a cut.
Ellipsis == <<".", ".", ".">>

\* String.prototype.slice with 0 <= start and 0 <= end
slice(text, start, end) ==
  SubSeq(text, start + 1, IF end < Len(text) THEN end ELSE Len(text))

\* String.prototype.indexOf: the first index (from 0) where part occurs, or -1.
indexOf(text, part) ==
  LET found == {k \in 0..(Len(text) - Len(part)) : slice(text, k, k + Len(part)) = part}
  IN  IF found = {} THEN -1 ELSE CHOOSE k \in found : \A j \in found : k <= j

\* createSnippet's contextLength as search passes it.
contextLength == 100

\* truncateText
truncateText(text, maxLength) ==
  IF Len(text) <= maxLength THEN text ELSE slice(text, 0, maxLength) \o Ellipsis

Max(a, b) == IF a > b THEN a ELSE b
Min(a, b) == IF a < b THEN a ELSE b

\* createSnippet that finds the query as it is written, with regard to case.
createSnippetCaseSensitive(text, query, length) ==
  IF ~TruthyText(query) \/ indexOf(text, query) = -1
    THEN truncateText(text, length * 2)
    ELSE LET index == indexOf(text, query)
             start == Max(0, index - length)
             end == Min(Len(text), index + Len(query) + length)
         IN  (IF start > 0 THEN Ellipsis ELSE <<>>) \o slice(text, start, end)
               \o (IF end < Len(text) THEN Ellipsis ELSE <<>>)

\* createSnippet
createSnippet(text, query, length) ==
  IF ~TruthyText(query) THEN truncateText(text, length * 2)
  ELSE LET index == indexOf(toLowerCase(text), toLowerCase(query))
       IN  IF index = -1 THEN truncateText(text, length * 2)
           ELSE LET start == Max(0, index - length)
                    end == Min(Len(text), index + Len(query) + length)
                IN  (IF start > 0 THEN Ellipsis ELSE <<>>) \o slice(text, start, end)
                      \o (IF end < Len(text) THEN Ellipsis ELSE <<>>)

\* SearchEngine.search lines 26-49: a row as a result, with a snippet if there
\* is a query.
SearchResult(id, row, query) ==
  [id |-> id, content |-> row.content, date |-> row.date,
   kvinna_1 |-> row.kvinna_1 # 0, kvinna_2 |-> row.kvinna_2 # 0,
   kvinna_3 |-> row.kvinna_3 # 0,
   person_id |-> row.person_id,
   person_gender |-> IF row.person_gender \in {"", NullText} THEN NullText
                     ELSE row.person_gender,
   person_party |-> IF row.person_party \in {"", NullText} THEN NullText
                    ELSE row.person_party,
   snippet |-> IF TruthyText(query) THEN createSnippet(row.content, query, contextLength)
               ELSE Undefined]

\* SearchEngine.search lines 26-49: results.map
MapResults(results, query) ==
  [k \in 1..Len(results) |-> SearchResult(results[k], utterance[results[k]], query)]

\* SearchEngine.search lines 16-23: the query is built and handed to
\* executeQuery.
Search(params) ==
  /\ walk = Idle
  /\ CachedInMemory(QueryYear)
  /\ walk' = [pc |-> "searchQuery", fn |-> "search", params |-> params,
              sql |-> buildQuery(params), searchResults |-> <<>>]
  /\ QueryFrame

\* SearchEngine.search lines 23-51: executeQuery returned; the rows are mapped.
SearchDone ==
  /\ walk.pc = "searchQuery"
  /\ walk' = [walk EXCEPT
                !.pc = "returned",
                !.searchResults = MapResults(SearchRows(walk.sql), walk.params.query)]
  /\ QueryFrame

\* Search parameters with nothing given.
NoParams ==
  [query |-> Undefined, party |-> Undefined, gender |-> "undefined",
   speaker |-> UndefinedNumber, kvinna_1 |-> "undefined", kvinna_2 |-> "undefined",
   kvinna_3 |-> "undefined", dateFrom |-> UndefinedNumber, dateTo |-> UndefinedNumber]

\* A row of utterance joined with its person, without links.
PlainRow ==
  [content |-> <<>>, prev |-> Null, next |-> Null, date |-> 1,
   kvinna_1 |-> 0, kvinna_2 |-> 0, kvinna_3 |-> 0,
   person_id |-> 1, person_gender |-> "man", person_party |-> "Left"]

\* ------------------------------------------------- searches by free text
\* The texts of at most n characters of a set.
Texts(chars, n) == UNION {[1..k -> chars] : k \in 0..n}

QueryChars == {"a", "A", "b", " ", "_", "OE"}
ContentChars == {"a", "A", "b", "OE"}

\* One row, of any content of at most MaxContentLen characters.
InitSearchText ==
  /\ InitQuery
  /\ \E content \in Texts(ContentChars, MaxContentLen) :
       utterance = [id \in {<<1>>} |-> [PlainRow EXCEPT !.content = content]]

\* Searches that give at most a query, of at most MaxQueryLen characters.
NextSearchText ==
  \/ \E query \in Texts(QueryChars, MaxQueryLen) \cup {Undefined} :
       Search([NoParams EXCEPT !.query = query])
  \/ SearchDone
  \/ QueryReturn

SpecSearchText == InitSearchText /\ [][NextSearchText]_vars

\* ---------------------------------------------------- searches by filters
\* One row, of any party, gender, speaker, tags and date.
InitSearchFilter ==
  /\ InitQuery
  /\ \E party \in {"Left", "Right", NullText}, gender \in {"Woman", "man"},
        person \in {1, 2}, k1 \in {0, 1}, k2 \in {0, 1}, date \in Dates :
       utterance = [id \in {<<1>>} |->
                      [PlainRow EXCEPT !.person_party = party, !.person_gender = gender,
                                       !.person_id = person, !.kvinna_1 = k1,
                                       !.kvinna_2 = k2, !.kvinna_3 = 1, !.date = date]]

\* Searches without a query, each criterion given or not.
NextSearchFilter ==
  \/ \E party \in {Undefined, <<>>, <<"Right">>}, gender \in {"undefined", "woman"},
        speaker \in {UndefinedNumber, 1},
        k1 \in {"undefined", "true", "false"}, k2 \in {"undefined", "true", "false"},
        k3 \in {"undefined", "false"},
        dateFrom \in {UndefinedNumber, NumDates}, dateTo \in {UndefinedNumber, 1} :
       Search([NoParams EXCEPT !.party = party, !.gender = gender, !.speaker = speaker,
                               !.kvinna_1 = k1, !.kvinna_2 = k2, !.kvinna_3 = k3,
                               !.dateFrom = dateFrom, !.dateTo = dateTo])
  \/ SearchDone
  \/ QueryReturn

SpecSearchFilter == InitSearchFilter /\ [][NextSearchFilter]_vars

\* ------------------------------------------- searches with many results
\* The decimal digits of a number: the id of a row as a text.
RECURSIVE Digits(_)
Digits(n) == IF n < 10 THEN <<n>> ELSE Digits(n \div 10) \o <<n % 10>>

\* The rows that may have the later date: none (0), or one of these.
LateRows == {0, 1, 2, 9, 10, 11, 50, 99, 100, 101}

\* Tables of about maxSearchResults rows with the ids "1", "2", ..., all of
\* the first date but at most one.
InitSearchLimit ==
  /\ InitQuery
  /\ \E n \in (maxSearchResults - 1)..MaxRows, late \in LateRows, tagged \in {0, 1} :
       utterance = [id \in {Digits(k) : k \in 1..n} |->
                      [PlainRow EXCEPT !.date = IF id = Digits(late) THEN NumDates ELSE 1,
                                       !.kvinna_1 = tagged]]

\* Searches for every row, for the rows of the first date, for the rows
\* tagged.
NextSearchLimit ==
  \/ \E dateTo \in {UndefinedNumber, 1}, k1 \in {"undefined", "true"} :
       Search([NoParams EXCEPT !.dateTo = dateTo, !.kvinna_1 = k1])
  \/ SearchDone
  \/ QueryReturn

SpecSearchLimit == InitSearchLimit /\ [][NextSearchLimit]_vars

\* ----------------------------------------- the text of the statement built
\* The text of a statement is the sequence of its pieces; a placeholder is the
\* piece "?".  A binding is a JavaScript value: a text (a sequence of
\* characters), a string of the parameters, or a number.
Placeholder == "?"
TextValue(chars) == [chars |-> chars]
StringValue(string) == [string |-> string]
NumberValue(number) == [number |-> number]

\* Array.prototype.join of pieces.
RECURSIVE join(_, _)
join(parts, separator) ==
  IF Len(parts) = 0 THEN <<>>
  ELSE IF Len(parts) = 1 THEN parts[1]
  ELSE parts[1] \o <<separator>> \o join(Tail(parts), separator)

\* What one block of buildQuery adds to sql and to bindings.
Added(sql, bindings) == [sql |-> sql, bindings |-> bindings]
Nothing == Added(<<>>, <<>>)

\* lines 75-83
LikeBlock(query) ==
  IF TruthyText(query) /\ trim(query) # <<>> /\ Len(tokenize(query)) > 0
    THEN LET tokens == tokenize(query)
         IN  Added(<<" AND (">>
                     \o join([k \in 1..Len(tokens) |-> <<"u.content LIKE ", Placeholder>>],
                             " AND ")
                     \o <<")">>,
                   [k \in 1..Len(tokens) |-> TextValue(<<"%">> \o tokens[k] \o <<"%">>)])
    ELSE Nothing

\* InPlaceholders of one placeholder for the whole list.
InPlaceholdersOne(party) == <<Placeholder>>

\* line 87: party.map(() => '?').join(',')
InPlaceholders(party) == join([k \in 1..Len(party) |-> <<Placeholder>>], ",")

\* lines 86-90
PartyBlock(party) ==
  IF party # Undefined /\ Len(party) > 0
    THEN Added(<<" AND p.party IN (">> \o InPlaceholders(party) \o <<")">>,
               [k \in 1..Len(party) |-> StringValue(party[k])])
    ELSE Nothing

\* lines 93-96
GenderBlock(gender) ==
  IF gender # "undefined" /\ gender # ""
    THEN Added(<<" AND LOWER(p.gender) = LOWER(", Placeholder, ")">>,
               <<StringValue(gender)>>)
    ELSE Nothing

\* lines 99-102
SpeakerBlock(speaker) ==
  IF speaker # UndefinedNumber
    THEN Added(<<" AND p.id = ", Placeholder>>, <<NumberValue(speaker)>>)
    ELSE Nothing

\* lines 105-120
TagBlock(comparison, tag) ==
  IF tag # "undefined"
    THEN Added(<<comparison, Placeholder>>,
               <<NumberValue(IF tag = "true" THEN 1 ELSE 0)>>)
    ELSE Nothing

\* lines 123-131
DateBlock(comparison, date) ==
  IF TruthyNumber(date)
    THEN Added(<<comparison, Placeholder>>, <<NumberValue(date)>>)
    ELSE Nothing

\* lines 59-140: the blocks in their order.
Blocks(params) ==
  <<Added(<<"SELECT u.*, ... FROM utterance u JOIN person p ON u.person_id = p.id WHERE 1=1">>,
          <<>>),
    LikeBlock(params.query),
    PartyBlock(params.party),
    GenderBlock(params.gender),
    SpeakerBlock(params.speaker),
    TagBlock(" AND u.kvinna_1 = ", params.kvinna_1),
    TagBlock(" AND u.kvinna_2 = ", params.kvinna_2),
    TagBlock(" AND u.kvinna_3 = ", params.kvinna_3),
    DateBlock(" AND u.date >= ", params.dateFrom),
    DateBlock(" AND u.date <= ", params.dateTo),
    Added(<<" ORDER BY u.date ASC, u.id ASC", " LIMIT ${config.maxSearchResults}">>, <<>>)>>

\* sql += ... and bindings.push(...) of one block.
AddedTo(built, block) ==
  Added(built.sql \o block.sql, built.bindings \o block.bindings)

\* The first n blocks.
RECURSIVE Built(_, _)
Built(blocks, n) ==
  IF n = 0 THEN Nothing ELSE AddedTo(Built(blocks, n - 1), blocks[n])

\* lines 59-140: buildQuery, with the text of the statement.
buildQueryText(params) == Built(Blocks(params), Len(Blocks(params)))

\* line 18 of search: the statement is built.
BuildQuery(params) ==
  /\ walk = Idle
  /\ walk' = [pc |-> "returned", fn |-> "buildQuery", params |-> params,
              statement |-> buildQueryText(params)]
  /\ QueryFrame

\* Searches with each criterion missing, given empty, or given.
InitBuild ==
  /\ InitQuery
  /\ utterance = [id \in {<<1>>} |-> PlainRow]

NextBuild ==
  \/ /\ walk = Idle
     /\ \E query \in {Undefined, <<>>, <<" ">>, <<"a">>, <<"a", " ", "?">>},
        party \in {Undefined, <<>>, <<"Right">>, <<"Left", "Right">>},
        gender \in {"undefined", "", "woman"}, speaker \in {UndefinedNumber, 0, 1},
        k1 \in {"undefined", "true", "false"}, k2 \in {"undefined", "true", "false"},
        k3 \in {"undefined", "true", "false"},
        dateFrom \in {UndefinedNumber, 0, 1}, dateTo \in {UndefinedNumber, NumDates} :
       BuildQuery([query |-> query, party |-> party, gender |-> gender,
                   speaker |-> speaker, kvinna_1 |-> k1, kvinna_2 |-> k2,
                   kvinna_3 |-> k3, dateFrom |-> dateFrom, dateTo |-> dateTo])
  \/ QueryReturn

SpecBuild == InitBuild /\ [][NextBuild]_vars

\* ------------------------------------------------ searches with snippets
\* n characters x.
Pad(n) == [k \in 1..n |-> "x"]

PadLengths == {0, 1, MaxPad - 2, MaxPad - 1, MaxPad}

Middles ==
  {<<"a", " ", "b">>, <<"A", " ", "B">>, <<"b", "x", "a">>, <<"a", "x", "a", " ", "b">>}

\* One row whose content has one of the middles between two runs of x.
InitSnippet ==
  /\ InitQuery
  /\ \E n \in PadLengths, m \in PadLengths, middle \in Middles :
       utterance = [id \in {<<1>>} |->
                      [PlainRow EXCEPT !.content = Pad(n) \o middle \o Pad(m)]]

\* Searches with no query, the empty query, and queries that are found in all,
\* some or none of the contents as they are written.
NextSnippet ==
  \/ \E query \in {Undefined, <<>>, <<" ">>, <<"a">>, <<"a", " ", "b">>, <<"b", " ", "a">>} :
       Search([NoParams EXCEPT !.query = query])
  \/ SearchDone
  \/ QueryReturn

SpecSnippet == InitSnippet /\ [][NextSnippet]_vars

\* ========================================================= compression
\* Elements of a Uint8Array: the two bytes of the gzip magic number 0x1f 0x8b,
\* their neighbours and the ends of the range.
Bytes == {0, 30, 31, 139, 140, 255}

\* isGzipped that looks at the first byte only.
isGzippedFirstByte(data) == Len(data) >= 2 /\ data[1] = 31

\* line 23: data.length >= 2 && data[0] === 0x1f && data[1] === 0x8b
isGzipped(data) == Len(data) >= 2 /\ data[1] = 31 /\ data[2] = 139

\* lines 21-24: a call of isGzipped and its result.
IsGzipped(data) ==
  /\ walk = Idle
  /\ walk' = [pc |-> "returned", fn |-> "isGzipped", data |-> data,
              result |-> isGzipped(data)]
  /\ QueryFrame

\* No partition is needed.
InitGzip ==
  /\ InitQuery
  /\ utterance = <<>>

NextGzip ==
  \/ \E data \in Texts(Bytes, MaxBytes) : IsGzipped(data)
  \/ QueryReturn

SpecGzip == InitGzip /\ [][NextGzip]_vars

\* ====================================================== DatabaseLoader
\* What response.headers.get('content-length') returns: null when the header
\* is missing, else its text, written as the sequence of its digits.
ContentLengths == {Null, Empty} \cup {<<d>> : d \in 0..MaxTotal}

\* parseInt(text, 10) of a sequence of digits.
RECURSIVE parseInt(_)
parseInt(text) ==
  IF Len(text) = 0 THEN 0
  ELSE 10 * parseInt(SubSeq(text, 1, Len(text) - 1)) + text[Len(text)]

\* line 37: contentLength ? parseInt(contentLength, 10) : 0
TotalOf(contentLength) == IF Truthy(contentLength) THEN parseInt(contentLength) ELSE 0

\* Math.round of the quotient n / d, d > 0: the nearest integer, halves upwards.
round(n, d) == (2 * n + d) \div (2 * d)

\* line 60: Math.round((loaded / total) * 100)
percentage(loaded, total) == round(loaded * 100, total)

\* lines 27-30: fetchDatabase is called and awaits fetch(url).
FetchDatabase ==
  /\ walk = Idle
  /\ walk' = [pc |-> "fetch", fn |-> "fetchDatabase"]
  /\ QueryFrame

\* lines 30-46: the response arrived.  A status other than success and a
\* missing body throw; else the total is taken from the header and the first
\* chunk is awaited.
FetchResponded(ok, contentLength, body) ==
  /\ walk.pc = "fetch"
  /\ walk' = IF ok /\ body
               THEN [pc |-> "read", fn |-> "fetchDatabase",
                     total |-> TotalOf(contentLength), loaded |-> 0, chunks |-> 0,
                     progress |-> <<>>]
               ELSE [pc |-> "returned", fn |-> "fetchDatabase", threw |-> TRUE,
                     total |-> IF ok THEN TotalOf(contentLength) ELSE 0,
                     loaded |-> 0, chunks |-> 0, progress |-> <<>>]
  /\ QueryFrame

\* line 30: fetch(url) rejected (the network failed).
FetchRejected ==
  /\ walk.pc = "fetch"
  /\ walk' = [pc |-> "returned", fn |-> "fetchDatabase", threw |-> TRUE,
              total |-> 0, loaded |-> 0, chunks |-> 0, progress |-> <<>>]
  /\ QueryFrame

\* lines 49-62: reader.read() gave a chunk of length bytes; onProgress is
\* called when the total is known.
ReadChunk(length) ==
  /\ walk.pc = "read"
  /\ LET loaded == walk.loaded + length
         total == walk.total
     IN  walk' = [walk EXCEPT
                    !.loaded = loaded,
                    !.chunks = @ + 1,
                    !.progress =
                      IF total > 0
                        THEN Append(@, [loaded |-> loaded, total |-> total,
                                        percentage |-> percentage(loaded, total)])
                        ELSE @]
  /\ QueryFrame

\* lines 49-51, 66-78: reader.read() reported the end; the bytes are returned.
ReadDone ==
  /\ walk.pc = "read"
  /\ walk' = [pc |-> "returned", fn |-> "fetchDatabase", threw |-> FALSE,
              total |-> walk.total, loaded |-> walk.loaded, chunks |-> walk.chunks,
              progress |-> walk.progress]
  /\ QueryFrame

\* lines 49, 79-85: reader.read() rejected; the error is wrapped and thrown.
ReadFailed ==
  /\ walk.pc = "read"
  /\ walk' = [pc |-> "returned", fn |-> "fetchDatabase", threw |-> TRUE,
              total |-> walk.total, loaded |-> walk.loaded, chunks |-> walk.chunks,
              progress |-> walk.progress]
  /\ QueryFrame

\* Responses with any declared size and any chunks, whatever the size declared.
NextFetch ==
  \/ FetchDatabase
  \/ \E ok, body \in BOOLEAN, contentLength \in ContentLengths :
       FetchResponded(ok, contentLength, body)
  \/ FetchRejected
  \/ \E length \in 0..MaxChunk :
       walk.pc = "read" /\ walk.chunks < MaxChunks /\ ReadChunk(length)
  \/ ReadDone
  \/ ReadFailed
  \/ QueryReturn

SpecFetch == InitGzip /\ [][NextFetch]_vars

TypeOK ==
  /\ SQL \in BOOLEAN
  /\ \A y \in Years : memoryCache[y] \in Ids \cup {None}
  /\ \A y \in Years : loadingPromises[y] \in Ids \cup {None}
  /\ \A i \in DOMAIN lruQueue : lruQueue[i] \in Years
  /\ \A y \in Years : store[y] \in {Absent, cacheVersion, staleVersion}
  /\ \A i \in DOMAIN clearing : clearing[i] \in Years \cup {AllYears}
  /\ cacheDb \in BOOLEAN
  /\ \A p \in Ids : loads[p].entry \in {NotRead, Absent, cacheVersion, staleVersion}

\* ================================================================ claims
Range(q) == {q[i] : i \in DOMAIN q}
NoDuplicates(q) == \A i, j \in DOMAIN q : q[i] = q[j] => i = j

\* The loads started by a call that overlapped the load a: a itself, and any
\* load started while a was registered.
Group(a) == {p \in Live : loads[p].att = a}

\* ------------------------------------------------------------------- C1
\* C1, as amended.  Single-flight: at most one internal load of a year is
\* running at any time; the calls that overlap one load attempt (the call that
\* started it and the calls that joined it) cause no second load, at most one
\* durable read and at most one network fetch; and the durable read is made
\* exactly once as soon as the engine initialisation of the attempt succeeded.
SingleFlight ==
  /\ \A year \in Years : Cardinality({p \in Running : p[1] = year}) <= 1
  /\ \A a \in Ids : Cardinality(Group(a)) <= 1
  /\ \A p \in Live : loads[p].reads <= 1 /\ loads[p].fetches <= 1
  /\ \A p \in Live :
       loads[p].pc \notin {"sqlInit", "sqlReady"} /\ loads[p].failedAt # "initSqlJs"
         => loads[p].reads = 1

\* C1 witness: three overlapping calls (the starter and two joiners) wait on one
\* load that made one durable read and one fetch and resolved.
SingleFlightWitness ==
  \E p \in Live : /\ loads[p].owner /\ loads[p].joiners = 2
                  /\ loads[p].pc = "resolved"
                  /\ loads[p].reads = 1 /\ loads[p].fetches = 1

\* C1 as stated: the same, with exactly one durable read for every attempt that
\* has settled.
SingleFlightExactlyOneRead ==
  /\ \A year \in Years : Cardinality({p \in Running : p[1] = year}) <= 1
  /\ \A a \in Ids : Cardinality(Group(a)) <= 1
  /\ \A p \in Live : Settled(p) => loads[p].reads = 1 /\ loads[p].fetches <= 1

\* ------------------------------------------------------------------- C2
\* C2.  Every loadDatabase call that overlapped a load attempt (started it,
\* joined it, or hit the memory cache while it was still registered) returns
\* what the attempt settled with: the instance it opened, or the error it
\* threw; and every call waiting on a settled attempt is eventually resumed.
SameOutcome ==
  /\ [][\A i \in DOMAIN delivered' :
          /\ delivered'[i].att \in Live
          /\ Settled(delivered'[i].att)
          /\ delivered'[i].ok = Outcome(delivered'[i].att).ok
          /\ delivered'[i].val = Outcome(delivered'[i].att).val]_vars
  /\ \A p \in Ids : Settled(p) ~> (loads[p].pc = "none")

\* C2 witness: a joiner was just handed the error of a failed attempt that one
\* more joiner still waits for.
SameOutcomeWitness ==
  /\ Len(delivered) = 1
  /\ delivered[1].by = "join" /\ ~delivered[1].ok
  /\ loads[delivered[1].att].pc = "rejected"
  /\ loads[delivered[1].att].joiners = 1

\* ------------------------------------------------------------------- C3
\* C3.  A registered load is one whose starting call has not returned; when the
\* starting call throws the error of a failed attempt, the year is out of the
\* registry, so that a later call for the year starts a fresh attempt (no
\* reads or fetches made yet); every call waiting on a failed attempt can be
\* resumed, and is handed the error of that attempt.
FailureUnregisters ==
  /\ [](\A y \in Loading : loads[loadingPromises[y]].owner)
  /\ [](\A i \in DOMAIN delivered :
          delivered[i].by = "start" /\ ~delivered[i].ok
            => /\ loadingPromises[delivered[i].val[1]] = None
               /\ FreeIds(delivered[i].val[1]) # {}
                    => ENABLED LoadStart(delivered[i].val[1])
               /\ ~ENABLED LoadJoin(delivered[i].val[1]))
  /\ [](\A p \in Live : loads[p].pc = "rejected"
          => ENABLED (LoadSettled(p) \/ JoinSettled(p)))
  /\ [][\A i \in DOMAIN delivered' :
          loads[delivered'[i].att].pc = "rejected"
            => ~delivered'[i].ok /\ delivered'[i].val = delivered'[i].att]_vars
  /\ [][\A p \in Live' \ Live :
          loads'[p].reads = 0 /\ loads'[p].fetches = 0 /\ loads'[p].att = p]_vars

\* C3 witness: the first attempt for year 1 failed (a joiner still waits for its
\* error) and the attempt started after the failure succeeded.
FailureUnregistersWitness ==
  /\ loads[<<1, 1>>].pc = "rejected" /\ ~loads[<<1, 1>>].owner
  /\ loads[<<1, 2>>].pc = "resolved"
  /\ memoryCache[1] = <<1, 2>>

\* ------------------------------------------------------------------- C4
\* C4.  Between any two steps, at most maxCachedDatabases (3) years are
\* resident in memory and the LRU queue is at most that long.
Capacity ==
  /\ Cardinality(Resident) <= maxCachedDatabases
  /\ Len(lruQueue) <= maxCachedDatabases

\* C4 witness: a load completed with the cache full and evicted, while a
\* clearCache call had not completed.
CapacityWitness ==
  /\ Len(lruQueue) = maxCachedDatabases
  /\ Len(closedNow) = 1 /\ closedNow[1].by = "evict"
  /\ clearing # <<>>

\* ------------------------------------------------------------------- C5
\* C5.  Between any two steps, the LRU queue holds exactly the years of the
\* memory cache, each once.
QueueIsKeySet ==
  /\ Range(lruQueue) = Resident
  /\ NoDuplicates(lruQueue)

\* C5 witness: clearCache(2) just closed the instance of year 2 and left the
\* years 1 and 3 resident and queued.
QueueIsKeySetWitness ==
  /\ closedNow = <<[db |-> <<2, 1>>, by |-> "clear"]>>
  /\ clearing = <<2>>
  /\ lruQueue = <<1, 3>>

\* ------------------------------------------------------------------- C6
\* C6.  The LRU queue lists the resident years in the order of their last
\* access (memory hit or completed load), most recent last, and the year an
\* eviction drops is the resident year accessed least recently; so a load of 4
\* onto the queue 1,2,3 leaves exactly 2,3,4, a hit of 1 on 1,2,3 gives 2,3,1,
\* and a load of 4 onto 2,3,1 evicts 2.
LruOrder ==
  /\ [](lruQueue = recency)
  /\ [][\A i \in DOMAIN closedNow' :
          closedNow'[i].by = "evict" => closedNow'[i].db[1] = Head(recency)]_vars
  /\ [][lruQueue = <<1, 2, 3>> /\ memoryCache'[4] # None
          => lruQueue' = <<2, 3, 4>> /\ Resident' = {2, 3, 4}]_vars
  /\ [][lruQueue = <<1, 2, 3>> /\ lruQueue' # lruQueue /\ Resident' = Resident
          => lruQueue' \in {<<2, 3, 1>>, <<1, 3, 2>>}]_vars
  /\ [][lruQueue = <<2, 3, 1>> /\ memoryCache'[4] # None
          => lruQueue' = <<3, 1, 4>> /\ memoryCache[2] = closedNow'[1].db]_vars

\* C6 witness: the load of 4 onto the queue 2,3,1 evicted 2 and kept 1.
LruOrderWitness ==
  /\ lruQueue = <<3, 1, 4>>
  /\ closedNow = <<[db |-> <<2, 1>>, by |-> "evict"]>>

\* ------------------------------------------------------------------- C7
\* C7.  In every step, the instances that leave the memory cache are exactly
\* the instances close() is called on, each once; so no instance is closed
\* twice, none leaves without being closed, and a closed one is not resident.
ClosedOnce ==
  [][LET before == {memoryCache[y] : y \in Resident}
         after  == {memoryCache'[y] : y \in Resident'}
         closed == {closedNow'[i].db : i \in DOMAIN closedNow'}
     IN  /\ closed = before \ after
         /\ Len(closedNow') = Cardinality(closed)
         /\ closed \cap after = {}]_vars

\* C7 witness: clearCache() just closed three resident instances.
ClosedOnceWitness ==
  /\ Len(closedNow) = 3
  /\ \A i \in DOMAIN closedNow : closedNow[i].by = "clear"
  /\ Resident = {}

\* ------------------------------------------------------------------- C8
\* C8.  Eviction never closes the instance of a year that is in the
\* registry of loads in flight.
EvictionSkipsPinned ==
  \A i \in DOMAIN closedNow :
    closedNow[i].by = "evict" => loadingPromises[closedNow[i].db[1]] = None

\* ------------------------------------------------------------------- C9
\* C9.  When clearCache(key) completes, its IndexedDB delete done, key is in
\* neither the memory cache, the LRU queue nor IndexedDB, and no other year
\* has changed; when clearCache() completes, all three are empty; and the
\* synchronous part of clearCache(key) changes no other year.
ClearCacheLeavesAbsent ==
  [][/\ \A i \in DOMAIN clearing :
          ClearCacheDone(i)
            => IF clearing[i] = AllYears
                 THEN /\ Resident' = {}
                      /\ lruQueue' = <<>>
                      /\ \A y \in Years : store'[y] = Absent
                 ELSE /\ memoryCache'[clearing[i]] = None
                      /\ clearing[i] \notin Range(lruQueue')
                      /\ store'[clearing[i]] = Absent
                      /\ \A y \in Years \ {clearing[i]} :
                           memoryCache'[y] = memoryCache[y] /\ store'[y] = store[y]
     /\ \A k \in Years :
          ClearCacheYear(k)
            => /\ \A y \in Years \ {k} : memoryCache'[y] = memoryCache[y]
               /\ lruQueue' = SelectSeq(lruQueue, LAMBDA y : y # k)
               /\ store' = store]_vars

\* ------------------------------------------------------------------ C10
\* C10.  isLoaded(key) returns whether key is in the memory cache: false for a
\* year that is only in IndexedDB, for a year whose load is running and for
\* an evicted year (one no longer in the LRU queue); and the call changes
\* nothing in the manager, the LRU order included.
IsLoadedIsResident ==
  /\ [](isLoadedResult # <<>>
          => LET key == isLoadedResult[1]
                 result == isLoadedResult[2]
             IN  /\ result = (key \in Resident)
                 /\ result = (key \in Range(lruQueue))
                 /\ (\E p \in Running : p[1] = key) => ~result
                 /\ store[key] # Absent /\ key \notin Resident => ~result)
  /\ [][isLoadedResult' # <<>>
          => UNCHANGED <<SQL, memoryCache, loadingPromises, lruQueue, store, loads,
                         clearing>>]_vars

\* C10 witness: isLoaded(1) returned false with 1 evicted by the loads of 2,3,4
\* and still in IndexedDB.
IsLoadedIsResidentWitness ==
  /\ isLoadedResult = <<1, FALSE>>
  /\ lruQueue = <<2, 3, 4>>
  /\ store[1] = cacheVersion
  /\ clearing = <<>>

\* ------------------------------------------------------------------ C11
\* C11, as amended.  DatabaseCache.get on an entry whose stored version is not
\* the running cache version never returns the data of the entry: it returns
\* absent (the load goes on to the network fetch), and when get returns the
\* entry has been deleted, unless the IndexedDB read or the delete itself
\* failed, in which case the stale entry is left as it was.
StaleNeverServed ==
  [][\A p \in Ids :
       /\ loads[p].pc = "cacheGet"
       /\ loads'[p].pc # "cacheGet"
       /\ store[p[1]] = staleVersion
       => /\ loads'[p].pc = "fetch"
          /\ memoryCache'[p[1]] = memoryCache[p[1]]
          /\ \/ store'[p[1]] = Absent
             \/ CacheGetFailed(p) /\ store'[p[1]] = staleVersion]_vars

\* C11 witness: get has returned absent to a load whose entry is stale and
\* still in IndexedDB, and the load has gone on to the fetch.
StaleNeverServedWitness ==
  \E p \in Live : /\ loads[p].pc = "fetch"
                  /\ loads[p].reads = 1
                  /\ store[p[1]] = staleVersion

\* C11 as stated: whenever get returns from a stale entry, it returns absent
\* and the entry has been deleted.
StaleDeletedBeforeReturn ==
  [][\A p \in Ids :
       /\ loads[p].pc = "cacheGet"
       /\ loads'[p].pc # "cacheGet"
       /\ store[p[1]] = staleVersion
       => /\ loads'[p].pc = "fetch"
          /\ store'[p[1]] = Absent]_vars

\* ------------------------------------------------------------------ C12
\* C12, as amended.  A load that read a stale entry goes on to the network
\* fetch and never opens the stale entry; when the load completes and its
\* IndexedDB write succeeded, the entry of the year carries the running
\* version, whatever was stored before; when the write failed, the load
\* completes all the same and the store is left as it was.
StaleOverwritten ==
  /\ [](\A p \in Live :
          loads[p].entry = staleVersion
            => loads[p].fetches = 1 /\ loads[p].pc \notin {"cacheOpen", "cacheGet"})
  /\ [][\A p \in Ids :
          loads[p].pc = "cacheSet" /\ loads'[p].pc # "cacheSet"
            => /\ loads'[p].pc = "resolved"
               /\ CacheSetDone(p) => store'[p[1]] = cacheVersion
               /\ ~CacheSetDone(p) => CacheSetFailed(p) /\ store' = store]_vars

\* C12 witness: a load that read a stale entry has fetched, written and
\* completed, and the entry of its year carries the running version.
StaleOverwrittenWitness ==
  \E p \in Live : /\ loads[p].entry = staleVersion
                  /\ loads[p].pc = "resolved"
                  /\ loads[p].fetches = 1
                  /\ store[p[1]] = cacheVersion

\* C12 as stated: once a load that read a stale entry has completed, the entry
\* of its year carries the running version.
StaleOverwrittenAlways ==
  \A p \in Live :
    loads[p].entry = staleVersion /\ loads[p].pc = "resolved"
      => store[p[1]] = cacheVersion

\* ------------------------------------------------------------------ C13
\* C13.  Whether the IndexedDB write of the fetched bytes succeeds or fails,
\* the load completes: the instance is opened, is in the memory cache and most
\* recently used, no load is ever rejected after its fetch succeeded, and every
\* call waiting on the load is handed the instance, never an error.
WriteFailureSwallowed ==
  /\ [][\A p \in Ids :
          loads[p].pc = "cacheSet" /\ loads'[p].pc # "cacheSet"
            => /\ loads'[p].pc = "resolved"
               /\ memoryCache'[p[1]] = p
               /\ lruQueue'[Len(lruQueue')] = p[1]]_vars
  /\ [](\A p \in Live :
          loads[p].pc = "rejected" => loads[p].failedAt \in {"initSqlJs", "openDB", "fetch"})
  /\ [](\A i \in DOMAIN delivered :
          LET p == delivered[i].att
          IN  loads[p].pc = "resolved" /\ loads[p].fetches = 1
                => delivered[i].ok /\ delivered[i].val = p)

\* C13 witness: the write of a fetched year failed (no entry with the running
\* version is stored), the instance is in the memory cache, and a joiner was
\* just handed it while one more joiner waits.
WriteFailureSwallowedWitness ==
  /\ Len(delivered) = 1
  /\ delivered[1].by = "join" /\ delivered[1].ok
  /\ LET p == delivered[1].att
     IN  /\ delivered[1].val = p
         /\ loads[p].fetches = 1 /\ loads[p].joiners = 1
         /\ store[p[1]] # cacheVersion
         /\ memoryCache[p[1]] = p

\* ------------------------------------------------------------------ C14
\* C14.  No IndexedDB failure aborts a load: a load that has called
\* DatabaseCache.get, be it opening the store or reading the entry, goes on to
\* open the entry or to the network fetch, and is never rejected by get.
DurableFailureNeverAborts ==
  [][\A p \in Ids :
       /\ loads[p].pc \in {"cacheOpen", "cacheGet"}
       /\ loads'[p].pc \notin {"cacheOpen", "cacheGet"}
       => loads'[p].pc \in {"fetch", "resolved"}]_vars

\* ------------------------------------------------------------------ C15
\* C15.  The IndexedDB handle is opened at most once: an openDB call made by
\* DatabaseCache.init hands over a handle only when no handle has been set.
OpenedAtMostOnce ==
  [][\A p \in Ids : CacheOpenDone(p) => ~cacheDb]_vars

\* ------------------------------------------------------------------ C16
\* C16.  Every error handed to a call that waited on a rejected load names the
\* year of the load.
ErrorsNameTheYear ==
  [][\A i \in DOMAIN delivered' :
       ~delivered'[i].ok
         => delivered'[i].val[1] \in ErrorYears(delivered'[i].val)]_vars

\* ------------------------------------------------------------------ C17
\* The id getUtteranceChain would look up after the records it has collected.
ChainFrontier(w) ==
  IF w.utterances = <<>>
    THEN w.startId
    ELSE LET last == w.utterances[Len(w.utterances)]
         IN  IF w.direction = "prev" THEN last.prev ELSE last.next

\* C17.  getUtteranceChain(startId, direction, count) makes at most count calls
\* of getUtterance and returns at most count records; it returns on every
\* table, one with a cycle included; the records are those of the table, the
\* first is the record startId and each next one is the record named by the
\* link of the one before in the given direction; and it returns fewer than
\* count records only when the link to follow is null, empty or names no record.
ChainBounded ==
  /\ [](walk.pc # "idle" /\ walk.fn = "getUtteranceChain"
          => LET us == walk.utterances
             IN  /\ walk.lookups <= walk.count
                 /\ Len(us) <= walk.lookups
                 /\ \A k \in DOMAIN us :
                      /\ us[k].id \in RecordIds
                      /\ us[k].prev = OrNull(utterance[us[k].id].prev)
                      /\ us[k].next = OrNull(utterance[us[k].id].next)
                      /\ us[k].id = IF k = 1 THEN walk.startId
                                    ELSE IF walk.direction = "prev" THEN us[k - 1].prev
                                    ELSE us[k - 1].next
                 /\ walk.pc = "returned"
                      => \/ Len(us) = walk.count
                         \/ ChainFrontier(walk) \notin RecordIds)
  /\ (walk.pc = "getUtterance" /\ walk.fn = "getUtteranceChain") ~> (walk.pc = "returned")

\* C17 witness: on a table where following next from "1" comes back to "1"
\* after three records, the chain of count 3 from "1" has returned "1", "10", "9".
ChainBoundedWitness ==
  /\ walk.pc = "returned"
  /\ walk.fn = "getUtteranceChain"
  /\ walk.direction = "next" /\ walk.count = 3 /\ walk.lookups = 3
  /\ Len(walk.utterances) = 3
  /\ walk.utterances[1].id = <<1>>
  /\ walk.utterances[3].next = <<1>>

\* ------------------------------------------------------------------ C18
\* C18.  getExchangeStart returns on every table: it looks no record up twice,
\* so that one call makes at most one call of getUtterance for each record of
\* the table, and one more when the last link names no record.
ExchangeStartTerminates ==
  walk.pc # "idle" /\ walk.fn = "getExchangeStart"
    => walk.lookups <= Cardinality(RecordIds) + 1

\* ------------------------------------------------------------------ C19
\* The prev link of a record, as getUtterance gives it.
PrevOf(id) == OrNull(utterance[id].prev)

\* The sequences of records each of which is named by the prev link of the
\* one before.
PrevPaths ==
  {path \in UNION {[1..k -> RecordIds] : k \in 1..Cardinality(RecordIds)} :
     \A k \in 1..(Len(path) - 1) : path[k + 1] = PrevOf(path[k])}

\* r is reached from x by prev links, and the prev link of r is null or names
\* no record.
IsStartOf(r, x) ==
  /\ PrevOf(r) \notin RecordIds
  /\ \E path \in PrevPaths : path[1] = x /\ path[Len(path)] = r

\* C19.  What getExchangeStart(id) returns for the id of a record is the
\* record reached from id by prev links whose own prev link is null or names
\* no record; that record is the only start of every record it is reached
\* from, and is its own start; for an id of no record the result is null; and
\* the call returns whenever the prev links from id reach such a record.
ExchangeStartIsHead ==
  /\ [](walk.pc = "returned" /\ walk.fn = "getExchangeStart"
          => IF walk.utteranceId \notin RecordIds
               THEN walk.result = NullUtterance
               ELSE LET r == walk.result.id
                    IN  /\ r \in RecordIds
                        /\ walk.result = mapRowToUtterance(r, utterance[r])
                        /\ IsStartOf(r, walk.utteranceId)
                        /\ IsStartOf(r, r)
                        /\ \A x, s \in RecordIds :
                             IsStartOf(r, x) /\ IsStartOf(s, x) => s = r)
  /\ (/\ walk.pc = "getUtterance"
      /\ walk.fn = "getExchangeStart"
      /\ walk.utteranceId \in RecordIds
           => \E r \in RecordIds : IsStartOf(r, walk.utteranceId))
       ~> (walk.pc = "returned")

\* C19 witness: with "9" <- "10" <- "1" linked by prev and the prev link of "1"
\* null, getExchangeStart("9") has returned "1" after three lookups.
ExchangeStartIsHeadWitness ==
  /\ walk.pc = "returned"
  /\ walk.fn = "getExchangeStart"
  /\ walk.utteranceId = <<9>>
  /\ utterance[<<9>>].prev = <<1, 0>>
  /\ utterance[<<1, 0>>].prev = <<1>>
  /\ utterance[<<1>>].prev = Null
  /\ walk.result.id = <<1>>
  /\ walk.lookups = 3

\* ------------------------------------------------------------------ C20
\* The place of an id in the text order of the ids: "1" < "10" < "9".
IdRank(id) == IF id = <<1>> THEN 1 ELSE IF id = <<1, 0>> THEN 2 ELSE 3

\* Record a comes strictly before record b in the order of (date, id).
StrictlyBefore(a, b) ==
  \/ utterance[a].date < utterance[b].date
  \/ utterance[a].date = utterance[b].date /\ IdRank(a) < IdRank(b)

\* The records with a null prev strictly after (for getNextExchange) or strictly
\* before (for getPreviousExchange) the record s.
NullPrevBeyond(fn, s) ==
  {t \in RecordIds :
     /\ utterance[t].prev = Null
     /\ IF fn = "getNextExchange" THEN StrictlyBefore(s, t) ELSE StrictlyBefore(t, s)}

\* C20.  What getNextExchange(id) / getPreviousExchange(id) return for the id
\* of a record: with s the start getExchangeStart finds for id, the result is
\* a record with a null prev strictly after / before s in the order of (date,
\* id), ids compared as text; it is not s; no other record with a null prev
\* lies between s and the result; and the result is null exactly when no
\* record with a null prev lies after / before s.
AdjacentExchangeIsNearest ==
  walk.pc = "returned" /\ walk.fn \in {"getNextExchange", "getPreviousExchange"}
    /\ walk.utteranceId \in RecordIds
    => LET s == walk.currentExchangeStart.id
           r == walk.result.id
           beyond == NullPrevBeyond(walk.fn, s)
       IN  /\ IsStartOf(s, walk.utteranceId)
           /\ (walk.result = NullUtterance) = (beyond = {})
           /\ walk.result # NullUtterance
                => /\ r \in beyond
                   /\ r # s
                   /\ walk.result = mapRowToUtterance(r, utterance[r])
                   /\ \A t \in beyond \ {r} :
                        IF walk.fn = "getNextExchange"
                          THEN StrictlyBefore(r, t) ELSE StrictlyBefore(t, r)

\* C20 witness: "1", "10" and "9" all start an exchange on the same date, and
\* getNextExchange("1") has returned "10", not "9".
AdjacentExchangeIsNearestWitness ==
  /\ walk.pc = "returned"
  /\ walk.fn = "getNextExchange"
  /\ walk.utteranceId = <<1>>
  /\ \A id \in RecordIds : utterance[id].prev = Null /\ utterance[id].date = 1
  /\ walk.result.id = <<1, 0>>

\* --------------------------------------------------------------------- C21
\* The record counts for a tagged-record query: one of its three tags is set
\* (Kvinna queries), or its speaker's gender is female (Female queries).
Counts(fn, t) ==
  IF fn \in {"getPreviousKvinnaUtterance", "getNextKvinnaUtterance"}
    THEN utterance[t].kvinna_1 + utterance[t].kvinna_2 + utterance[t].kvinna_3 > 0
    ELSE utterance[t].person_gender \in {"Woman", "kvinna", "KVINNA", "woman"}

\* The counting records strictly before (previous queries) or strictly after
\* (next queries) the record c in the order of (date, id).
CountingBeyond(fn, c) ==
  {t \in RecordIds :
     /\ Counts(fn, t)
     /\ IF fn \in {"getPreviousKvinnaUtterance", "getPreviousFemaleUtterance"}
          THEN StrictlyBefore(t, c) ELSE StrictlyBefore(c, t)}

\* C21: a next / previous tagged-record query that returned for a current
\* record of the table gave no record exactly when no counting record lies
\* strictly beyond the current one; otherwise it gave a counting record strictly
\* beyond the current one (so never the current record itself), the nearest of
\* them, with the fields of its row.
TaggedIsNearest ==
  walk.pc = "returned" /\ walk.fn \in TaggedQueries /\ walk.utteranceId \in RecordIds
    => LET c == walk.utteranceId
           r == walk.result.id
           beyond == CountingBeyond(walk.fn, c)
       IN  /\ (walk.result = NullUtterance) = (beyond = {})
           /\ walk.result # NullUtterance
                => /\ r \in beyond
                   /\ r # c
                   /\ walk.result.date = utterance[r].date
                   /\ IF walk.fn \in {"getPreviousKvinnaUtterance", "getNextKvinnaUtterance"}
                        THEN walk.result.kvinna_1 \/ walk.result.kvinna_2 \/ walk.result.kvinna_3
                        ELSE walk.result.person_gender \in {"Woman", "kvinna", "KVINNA", "woman"}
                   /\ \A t \in beyond \ {r} :
                        IF walk.fn \in {"getPreviousKvinnaUtterance", "getPreviousFemaleUtterance"}
                          THEN StrictlyBefore(t, r) ELSE StrictlyBefore(r, t)

\* Every record is tagged by its third tag only, all on one date; the next
\* tagged record after "1" is "10", not "1" itself and not "9".
TaggedIsNearestWitness ==
  /\ walk.pc = "returned"
  /\ walk.fn = "getNextKvinnaUtterance"
  /\ walk.utteranceId = <<1>>
  /\ \A id \in RecordIds :
       /\ utterance[id].date = 1
       /\ utterance[id].kvinna_1 = 0 /\ utterance[id].kvinna_3 = 1
  /\ walk.result.id = <<1, 0>>

\* --------------------------------------------------------------------- C22
\* The chain is well-formed: every link names a record, and prev and next are
\* inverse to each other.
WellFormedChain ==
  \A x \in RecordIds :
    /\ Truthy(utterance[x].prev)
         => utterance[x].prev \in RecordIds /\ utterance[utterance[x].prev].next = x
    /\ Truthy(utterance[x].next)
         => utterance[x].next \in RecordIds /\ utterance[utterance[x].next].prev = x

\* C22: getUtteranceContext of an id of no record returns no center and empty
\* before and after.  Of a record it returns that record as center, at most
\* beforeCount records before and afterCount after; before is in chronological
\* order (each record is the prev of the following, the last is center.prev),
\* after starts with center.next and follows next; on a well-formed chain each
\* element of before ++ [center] ++ after has the id of the following as next.
ContextIsSegment ==
  walk.pc = "returned" /\ walk.fn = "getUtteranceContext"
    => IF walk.utteranceId \notin RecordIds
         THEN walk.center = NullUtterance /\ walk.before = <<>> /\ walk.after = <<>>
         ELSE LET b == walk.before
                  a == walk.after
                  segment == b \o <<walk.center>> \o a
              IN  /\ walk.center.id = walk.utteranceId
                  /\ walk.center.date = utterance[walk.utteranceId].date
                  /\ Len(b) <= walk.beforeCount
                  /\ Len(a) <= walk.afterCount
                  /\ b # <<>> => b[Len(b)].id = walk.center.prev
                  /\ \A k \in 1..(Len(b) - 1) : b[k + 1].prev = b[k].id
                  /\ a # <<>> => a[1].id = walk.center.next
                  /\ \A k \in 1..(Len(a) - 1) : a[k].next = a[k + 1].id
                  /\ WellFormedChain
                       => \A k \in 1..(Len(segment) - 1) : segment[k].next = segment[k + 1].id

\* On the well-formed chain "1" -> "10" -> "9" the context of "9" with two
\* records before is "1", "10" and then the center "9".
ContextIsSegmentWitness ==
  /\ walk.pc = "returned"
  /\ walk.fn = "getUtteranceContext"
  /\ WellFormedChain
  /\ walk.utteranceId = <<9>>
  /\ walk.center.id = <<9>>
  /\ Len(walk.before) = 2
  /\ walk.before[1].id = <<1>>
  /\ walk.before[2].id = <<1, 0>>
  /\ walk.after = <<>>

\* --------------------------------------------------------------------- C23
\* The tokens of a query: the maximal runs without white space of the query in
\* lower case.
TokensOf(query) ==
  LET q == toLowerCase(query)
  IN  {SubSeq(q, i, j) : i \in 1..Len(q), j \in 1..Len(q)} \cap
      {t \in Texts({LowerChar(c) : c \in QueryChars} \ {" "}, Len(q)) :
         /\ t # <<>>
         /\ \E i \in 1..Len(q) :
              /\ i + Len(t) - 1 <= Len(q)
              /\ SubSeq(q, i, i + Len(t) - 1) = t
              /\ i = 1 \/ q[i - 1] = " "
              /\ i + Len(t) - 1 = Len(q) \/ q[i + Len(t)] = " "}

\* The text has the part as a substring.
Contains(text, part) ==
  \E k \in 0..(Len(text) - Len(part)) : SubSeq(text, k + 1, k + Len(part)) = part

\* C23: a search that gives only a query returns a record exactly when the
\* content of the record, letters compared without regard to case, has every
\* token of the query as a substring; a query that is not given, is empty or is
\* white space only has no token and every record is returned.
TokensAreSubstrings ==
  walk.pc = "returned" /\ walk.fn = "search"
    => LET query == walk.params.query
           tokens == IF query = Undefined THEN {} ELSE TokensOf(query)
       IN  \A id \in DOMAIN utterance :
             (\E k \in DOMAIN walk.searchResults : walk.searchResults[k].id = id)
               <=> \A t \in tokens : Contains(toLowerCase(utterance[id].content), t)

\* --------------------------------------------------------------------- C24
\* A tag criterion is satisfied: a tag asked to be true is set, a tag asked to
\* be false is unset, a tag not asked for is either.
TagSatisfied(tag, value) ==
  (tag = "true" => value = 1) /\ (tag = "false" => value = 0)

\* The record satisfies every criterion that the parameters give.
SatisfiesAll(params, row) ==
  /\ params.party \notin {Undefined, <<>>} => row.person_party \in Range(params.party)
  /\ params.gender # "undefined"
       => row.person_gender \in
            {g \in {"Woman", "woman", "man", "Man"} : Lower(g) = Lower(params.gender)}
  /\ params.speaker # UndefinedNumber => row.person_id = params.speaker
  /\ TagSatisfied(params.kvinna_1, row.kvinna_1)
  /\ TagSatisfied(params.kvinna_2, row.kvinna_2)
  /\ TagSatisfied(params.kvinna_3, row.kvinna_3)
  /\ params.dateFrom # UndefinedNumber => row.date >= params.dateFrom
  /\ params.dateTo # UndefinedNumber => row.date <= params.dateTo

\* The number of criteria that the parameters give.
NumPresent(params) ==
  Cardinality({c \in {"gender", "kvinna_1", "kvinna_2", "kvinna_3"} :
                 params[c] # "undefined"})
  + Cardinality({c \in {"speaker", "dateFrom", "dateTo"} : params[c] # UndefinedNumber})
  + (IF params.party \in {Undefined, <<>>} THEN 0 ELSE 1)

RECURSIVE LexLess(_, _)
LexLess(a, b) ==
  IF b = <<>> THEN FALSE
  ELSE IF a = <<>> THEN TRUE
  ELSE Head(a) < Head(b) \/ (Head(a) = Head(b) /\ LexLess(Tail(a), Tail(b)))

\* Row a comes before row b in the order of (date, id).
DateIdBefore(a, b) ==
  \/ utterance[a].date < utterance[b].date
  \/ utterance[a].date = utterance[b].date /\ LexLess(a, b)

\* C25: a search returns at most maxSearchResults (100) rows, all of them when
\* no more than that match, in ascending order of (date, id); every matching
\* row that is not returned comes after every row returned in that order.
CappedTo(r, returned, matching, n) ==
  /\ Len(r) <= n
  /\ Len(r) = IF Cardinality(matching) < n THEN Cardinality(matching) ELSE n
  /\ returned \subseteq matching
  /\ \A j, k \in DOMAIN r : j < k => DateIdBefore(r[j].id, r[k].id)
  /\ \A m \in matching \ returned : \A k \in DOMAIN r : DateIdBefore(r[k].id, m)

SearchIsCapped ==
  walk.pc = "returned" /\ walk.fn = "search"
    => CappedTo(walk.searchResults,
                {walk.searchResults[k].id : k \in DOMAIN walk.searchResults},
                {id \in DOMAIN utterance :
                   /\ walk.params.dateTo # UndefinedNumber
                        => utterance[id].date <= walk.params.dateTo
                   /\ walk.params.kvinna_1 = "true" => utterance[id].kvinna_1 = 1},
                100)

\* 102 rows match and the row "1" has the later date: the 100 rows returned
\* start with "10" and end with "98"; "99" and "1" are left out.
SearchIsCappedWitness ==
  /\ walk.pc = "returned"
  /\ walk.fn = "search"
  /\ walk.params = NoParams
  /\ Cardinality(DOMAIN utterance) = 102
  /\ utterance[<<1>>].date = NumDates
  /\ Len(walk.searchResults) = 100
  /\ walk.searchResults[1].id = <<1, 0>>
  /\ walk.searchResults[100].id = <<9, 8>>

\* --------------------------------------------------------------------- C26
\* The places (from 1) where the part occurs in the text, letters compared
\* without regard to case.
Occurrences(text, part) ==
  {p \in 1..(Len(text) - Len(part) + 1) :
     \A k \in 1..Len(part) : LowerChar(text[p + k - 1]) = LowerChar(part[k])}

\* The window of 100 characters on each side of the part at place p, with three
\* dots on each side where the text goes on.
Window(text, p, n) ==
  (IF p - 100 > 1 THEN <<".", ".", ".">> ELSE <<>>)
    \o [k \in 1..(Min(Len(text), p + n - 1 + 100) - Max(1, p - 100) + 1) |->
          text[Max(1, p - 100) + k - 1]]
    \o (IF p + n - 1 + 100 < Len(text) THEN <<".", ".", ".">> ELSE <<>>)

\* The first 200 characters of the text, with three dots if the text goes on.
Truncated(text) ==
  IF Len(text) <= 200 THEN text ELSE [k \in 1..200 |-> text[k]] \o <<".", ".", ".">>

SnippetOf(text, query, places) ==
  IF places = {} THEN Truncated(text)
  ELSE Window(text, CHOOSE p \in places : \A o \in places : p <= o, Len(query))

GzipMagic ==
  walk.pc = "returned" /\ walk.fn = "isGzipped"
    => /\ walk.result <=> Len(walk.data) >= 2 /\ SubSeq(walk.data, 1, 2) = <<31, 139>>
       /\ Len(walk.data) <= 1 => ~walk.result

\* isGzipped was called with the one byte 0x1f and with 0x1f 0x8b 0x00.
GzipMagicWitness ==
  /\ walk.pc = "returned"
  /\ walk.fn = "isGzipped"
  /\ \/ walk.data = <<31>> /\ ~walk.result
     \/ walk.data = <<31, 139, 0>> /\ walk.result

\* --------------------------------------------------------------------- C28
\* The provider's loadDatabase calls for the year that have not settled.
UnsettledCalls(year) ==
  awaiting[year]
  + Cardinality({p \in Live : p[1] = year /\ loads[p].owner})
  + Cardinality({<<p, k>> \in Live \X (1..MaxJoiners) : p[1] = year /\ k <= loads[p].joiners})

\* The steps of the provider follow the attempt: a call sets the state of its
\* year to loading (also after an error); a call that resolves sets success
\* with progress 100, a call that rejects sets error with the message.
StateFollowsStep ==
  /\ \A year \in Years :
       ProviderLoadDatabase(year) => loadingStates'[year].state = "loading"
  /\ \A year \in Years :
       ProviderHitResumed(year)
         => loadingStates'[year].state = "success" /\ loadingStates'[year].progress = 100
  /\ \A p \in Live :
       ProviderLoadSettled(p) \/ ProviderJoinSettled(p)
         => IF loads[p].pc = "resolved"
              THEN /\ loadingStates'[p[1]].state = "success"
                   /\ loadingStates'[p[1]].progress = 100
              ELSE /\ loadingStates'[p[1]].state = "error"
                   /\ loadingStates'[p[1]].error # ""

\* C28: the loading state of a year follows the attempt (StateFollowsStep), and
\* once every load call for the year has settled the state is not loading.
StateFollowsAttempt ==
  /\ [](\A year \in Years : UnsettledCalls(year) = 0 => loadingStates[year].state # "loading")
  /\ [][StateFollowsStep]_vars

\* The entry of the year was stale, the load failed in the fetch and every call
\* has settled: the state is error with the message of the fetch.
StateFollowsAttemptWitness ==
  /\ loadingStates[QueryYear].state = "error"
  /\ loadingStates[QueryYear].error = "Failed to load database for year"
  /\ UnsettledCalls(QueryYear) = 0
  /\ store[QueryYear] = Absent

\* --------------------------------------------------------------------- C29
\* C29: a load that was started runs to its end whether or not a caller waits
\* for it: as long as every request of the load is answered, a year in the
\* registry of loads in flight is eventually out of it; and the step at which
\* a load resolves makes its instance the resident one of its year.
LoadRunsToItsEnd ==
  /\ \A year \in Years : (loadingPromises[year] # None) ~> (loadingPromises[year] = None)
  /\ [][\A p \in Ids :
          loads[p].pc # "resolved" /\ loads'[p].pc = "resolved"
            => memoryCache'[p[1]] = p /\ IndexOf(lruQueue', p[1]) # NotFound]_vars

\* The call that started a load has just been given the instance: the year is
\* out of the registry and the instance is resident.
LoadRunsToItsEndWitness ==
  /\ Len(delivered) = 1
  /\ delivered[1].by = "start" /\ delivered[1].ok
  /\ loadingPromises[delivered[1].val[1]] = None
  /\ memoryCache[delivered[1].val[1]] = delivered[1].val

\* --------------------------------------------------------------------- C30
\* What a step does to the load p, in the order of the tiers: IndexedDB is read
\* before anything is fetched; a fetch is made only after the read, when it
\* gave no entry of the running version; a hit in IndexedDB resolves the load
\* with no fetch and with the store as it was; databaseCache.set is called only
\* after the fetch; and the instance enters the memory cache, with its year in
\* the LRU queue, only in the step that resolves the load, after the hit or
\* after the write that followed the fetch.
TierStep(p) ==
  LET year == p[1]
  IN  /\ loads'[p].reads > loads[p].reads => loads[p].fetches = 0 /\ loads[p].reads = 0
      /\ loads'[p].fetches > loads[p].fetches
           => /\ loads[p].pc = "cacheGet" /\ loads[p].reads = 1
              /\ loads'[p].entry # cacheVersion
              /\ loads'[p].pc = "fetch"
      /\ loads[p].pc = "cacheGet" /\ loads'[p].pc = "resolved"
           => /\ loads'[p].entry = cacheVersion
              /\ loads'[p].fetches = 0
              /\ store' = store
      /\ loads[p].pc # "cacheSet" /\ loads'[p].pc = "cacheSet"
           => loads[p].pc = "fetch" /\ loads[p].fetches = 1
      /\ store'[year] # store[year] /\ store'[year] = cacheVersion
           => \E q \in Ids : q[1] = year /\ loads[q].pc = "cacheSet"
      /\ memoryCache'[year] = p /\ memoryCache[year] # p
           => /\ loads'[p].pc = "resolved"
              /\ loads[p].pc \in {"cacheGet", "cacheSet"}
              /\ IndexOf(lruQueue', year) # NotFound

\* C30: on a memory miss IndexedDB is tried first and the network second: a
\* hit with the running version causes no fetch and no write; on a miss the
\* fetch comes first, the write second, the open third, and the year is in the
\* memory cache and in the LRU queue only once the load has resolved.
TiersInOrder ==
  /\ [](\A p \in Running : memoryCache[p[1]] # p)
  /\ [](\A p \in Live : loads[p].pc \in {"fetch", "cacheSet"}
                          => loads[p].entry # cacheVersion /\ loads[p].reads = 1)
  /\ [][\A p \in Ids : TierStep(p)]_vars

\* A load that found no entry has fetched, written and opened the year.
TiersInOrderWitness ==
  \E p \in Live :
    /\ loads[p].pc = "resolved"
    /\ loads[p].entry = Absent
    /\ loads[p].fetches = 1
    /\ store[p[1]] = cacheVersion
    /\ memoryCache[p[1]] = p

\* ------------------------------------------------------------------ C31
\* A step of the load p other than the one that resolves it.
UnresolvingStep(p) == loads'[p].pc # loads[p].pc /\ loads'[p].pc # "resolved"

\* C31: a load attempt that fails in the network fetch leaves the cache as it
\* is.  None of its steps (up to and including the one in which fetchDatabase
\* throws and the one that resumes the caller) writes an entry to IndexedDB,
\* makes a year resident, changes the LRU queue or the instance of a resident
\* year, or closes (evicts) an instance; the step in which the fetch fails
\* leaves IndexedDB exactly as it was.
FetchFailureLeavesCache ==
  [][\A p \in Ids :
       /\ UnresolvingStep(p) =>
            /\ memoryCache' = memoryCache
            /\ lruQueue' = lruQueue
            /\ closedNow' = <<>>
            /\ \A y \in Years : store'[y] \in {store[y], Absent}
       /\ (loads[p].pc = "fetch" /\ loads'[p].pc = "rejected") => store' = store
    ]_vars

\* The fetch of one year has failed while the other year is resident and queued.
FetchFailureLeavesCacheWitness ==
  \E p \in Ids :
    /\ loads[p].pc = "rejected"
    /\ loads[p].failedAt = "fetch"
    /\ Resident # {}
    /\ p[1] \notin Resident
    /\ Len(lruQueue) > 0
    /\ store[p[1]] = Absent

\* ------------------------------------------------------------------ C32
\* A fetchDatabase call that reads or has read the body of its response.
Fetching == walk.pc \in {"read", "returned"} /\ walk.fn = "fetchDatabase"

\* C32: progress is reported only when the total is known (greater than 0),
\* then once for every chunk received, and every percentage reported lies in
\* 0..100 and is not smaller than the one reported before it.
ProgressIsPercentage ==
  Fetching =>
    /\ walk.total <= 0 => walk.progress = <<>>
    /\ walk.total > 0 => Len(walk.progress) = walk.chunks
    /\ \A i \in DOMAIN walk.progress : walk.progress[i].percentage \in 0..100
    /\ \A i, j \in DOMAIN walk.progress :
         i <= j => walk.progress[i].percentage <= walk.progress[j].percentage

\* ------------------------------------------------------------------ C33
\* The tagged records of the table of a year; none when the year is unavailable.
TaggedIn(partition) ==
  IF partition = Unavailable THEN {}
  ELSE {id \in DOMAIN partition :
          partition[id].kvinna_1 + partition[id].kvinna_2 + partition[id].kvinna_3 > 0}

\* Row a comes before row b of the table in the order of (date, id).
BeforeIn(partition, a, b) ==
  \/ partition[a].date < partition[b].date
  \/ partition[a].date = partition[b].date /\ LexLess(a, b)

\* The first tagged record of a table for handleNextKvinna, the last one for
\* handlePreviousKvinna.
EdgeTagged(handler, partition) ==
  CHOOSE id \in TaggedIn(partition) :
    \A o \in TaggedIn(partition) \ {id} :
      IF handler = "handleNextKvinna"
        THEN BeforeIn(partition, id, o) ELSE BeforeIn(partition, o, id)

\* C33: when the query of the year of the page gave no record, the handler
\* tries the years after it one by one in increasing order up to the last year
\* (handlePreviousKvinna: the years before it in decreasing order down to the
\* first year), each at most once; a year that is unavailable or has no tagged
\* record is passed over; the handler navigates to the first (last) tagged
\* record of the first year tried that has one and tries no year after it; it
\* navigates at most once, and ends without navigating only when every year of
\* the range has been tried.
ScanFindsNearestYear ==
  walk.pc \in {"scan", "done"} /\ walk.result = NullUtterance
    => LET dir == IF walk.handler = "handleNextKvinna" THEN 1 ELSE -1
           n == Len(walk.seen)
       IN  /\ Len(walk.navigated) <= 1
           /\ \A i \in 1..n :
                /\ walk.seen[i].year = walk.year + dir * i
                /\ walk.seen[i].year \in FirstYear..LastYear
           /\ \A i \in 1..(n - 1) : TaggedIn(walk.seen[i].partition) = {}
           /\ walk.pc = "scan"
                => /\ walk.navigated = <<>>
                   /\ \A i \in 1..n : TaggedIn(walk.seen[i].partition) = {}
                   /\ walk.tryYear = walk.year + dir * (n + 1)
                   /\ walk.tryYear \in FirstYear..LastYear
           /\ walk.pc = "done" /\ "fn" \in DOMAIN walk
                => IF n > 0 /\ TaggedIn(walk.seen[n].partition) # {}
                     THEN walk.navigated =
                            <<[year |-> walk.seen[n].year,
                               id |-> EdgeTagged(walk.handler, walk.seen[n].partition)]>>
                     ELSE /\ walk.navigated = <<>>
                          /\ walk.year + dir * (n + 1) \notin FirstYear..LastYear

\* handleNextKvinna passed over an unavailable year and a year without tagged
\* records and then navigated to "10", the first of the two tagged records of
\* one date of the third year tried.
ScanFindsNearestYearWitness ==
  /\ walk.pc = "done"
  /\ walk.handler = "handleNextKvinna"
  /\ walk.result = NullUtterance
  /\ Len(walk.seen) = 3
  /\ walk.seen[1].partition = Unavailable
  /\ walk.seen[2].partition # Unavailable
  /\ TaggedIn(walk.seen[3].partition) = ScanIds
  /\ walk.seen[3].partition[<<9>>].date = walk.seen[3].partition[<<1, 0>>].date
  /\ walk.navigated = <<[year |-> walk.year + 3, id |-> <<1, 0>>]>>

\* ------------------------------------------------------------------ C34
\* C34: sql.js is initialised at most once: a call of initSqlJs completes the
\* initialisation (and assigns this.SQL) only when the engine has not been
\* initialised yet, also when the first loads of different years overlap.
InitializedAtMostOnce ==
  [][\A p \in Ids : InitSqlJsDone(p) => ~SQL]_vars

\* ------------------------------------------------------------------ C35
\* C35: executeQuery calls db.exec only on an instance that is open when the
\* call is made, whatever other loads, evictions and clearCache calls happen
\* between its loadDatabase call and the query.
QueryRunsOnOpenInstance ==
  walk # Idle /\ "exec" \in DOMAIN walk => walk.exec.open

\* ------------------------------------------------------------------ C36
\* What the traversal returns on the table of the year when nothing removes
\* the partition while it runs.
SameRecords(w) ==
  IF w.fn = "getUtteranceChain"
    THEN w.utterances = getUtteranceChain(w.startId, w.direction, w.count)
    ELSE w.result = mapRowToUtterance(<<1>>, utterance[<<1>>])

\* C36: a traversal whose partition is removed from memory between two of its
\* steps, and whose reloads succeed, returns without an error the records it
\* returns when the partition stays resident.
TraversalSurvivesEviction ==
  walk # Idle /\ "failure" \in DOMAIN walk /\ walk.pc = "returned" /\ walk.failure # "load"
    => ~walk.threw /\ SameRecords(walk)

\* ------------------------------------------------------------------ C37
\* C37: for every record x, when getNextExchange(x) returned n, then
\* getPreviousExchange(n.id) returns the record that getExchangeStart(x)
\* returns, and when getPreviousExchange(x) returned p, then
\* getNextExchange(p.id) returns it.
ExchangeRoundTrip ==
  walk.pc = "returned" /\ "from" \in DOMAIN walk => walk.result = walk.from.start

\* ------------------------------------------------------------------ C38
\* The prev link of a record of a table, as mapRowToUtterance gives it.
PrevIn(table, id) == OrNull(table[id].prev)

\* In the table, r is the first record of the exchange of x: r is reached from
\* x by prev links and the prev link of r is null or names no record.
IsStartIn(table, r, x) ==
  /\ PrevIn(table, r) \notin DOMAIN table
  /\ \E path \in UNION {[1..k -> DOMAIN table] : k \in 1..Cardinality(DOMAIN table)} :
       /\ path[1] = x
       /\ path[Len(path)] = r
       /\ \A k \in 1..(Len(path) - 1) : path[k + 1] = PrevIn(table, path[k])

\* The handler went to a record of the neighbouring year.
CrossedYear ==
  /\ walk.pc = "done"
  /\ walk.handler \in ExchangeHandlers
  /\ walk.navigated # <<>>
  /\ walk.navigated[1].year # walk.year

\* C38: a handlePrevious that navigates to the year before lands on the first
\* record of the exchange of the last record of that year, and a handleNext
\* that navigates to the year after lands on a record whose prev is null.
BoundaryLandsOnStart ==
  CrossedYear
    => LET table == walk.seen[1].partition
           id == walk.navigated[1].id
       IN  IF walk.handler = "handlePrevious"
             THEN IsStartIn(table, id, EdgeRow("last", table))
             ELSE table[id].prev = Null

\* ------------------------------------------------------------------ C39
\* C39: whenever the effect of the last render has run and the hook reports
\* loading = 'success', its database is an instance of the partition of the
\* year of that render: not null, and not an instance of another year.
SuccessExposesYear ==
  walk.pc = "hook" /\ ~walk.pending /\ walk.loading = "success"
    => walk.database # None /\ walk.database[1] = walk.year

\* ------------------------------------------------------------------ C40
\* The places of the placeholders in the text of a statement, in their order.
PlaceholderPlaces(sql) ==
  LET places == {i \in DOMAIN sql : sql[i] = Placeholder}
  IN  [k \in 1..Cardinality(places) |->
         CHOOSE i \in places : Cardinality({j \in places : j < i}) = k - 1]

\* The comparison a placeholder stands in: the last piece before it that is
\* neither a placeholder nor a comma.
ComparisonAt(sql, i) ==
  sql[CHOOSE j \in 1..(i - 1) :
        /\ sql[j] \notin {Placeholder, ","}
        /\ \A l \in (j + 1)..(i - 1) : sql[l] \in {Placeholder, ","}]

\* The number of the placeholder at place i among those of its comparison.
NumberAt(sql, i) ==
  Cardinality({j \in 1..i : sql[j] = Placeholder
                            /\ ComparisonAt(sql, j) = ComparisonAt(sql, i)})

\* The value of the parameters that the n-th placeholder of a comparison is
\* to be bound to.
ValueFor(params, comparison, n) ==
  CASE comparison = "u.content LIKE " ->
         TextValue(<<"%">> \o tokenize(params.query)[n] \o <<"%">>)
    [] comparison = " AND p.party IN (" -> StringValue(params.party[n])
    [] comparison = " AND LOWER(p.gender) = LOWER(" -> StringValue(params.gender)
    [] comparison = " AND p.id = " -> NumberValue(params.speaker)
    [] comparison = " AND u.kvinna_1 = " ->
         NumberValue(IF params.kvinna_1 = "true" THEN 1 ELSE 0)
    [] comparison = " AND u.kvinna_2 = " ->
         NumberValue(IF params.kvinna_2 = "true" THEN 1 ELSE 0)
    [] comparison = " AND u.kvinna_3 = " ->
         NumberValue(IF params.kvinna_3 = "true" THEN 1 ELSE 0)
    [] comparison = " AND u.date >= " -> NumberValue(params.dateFrom)
    [] comparison = " AND u.date <= " -> NumberValue(params.dateTo)

\* The comparisons in the order the claim gives: tokens, parties, gender,
\* speaker, the three tags, dateFrom, dateTo.
ComparisonRank(comparison) ==
  CASE comparison = "u.content LIKE " -> 1
    [] comparison = " AND p.party IN (" -> 2
    [] comparison = " AND LOWER(p.gender) = LOWER(" -> 3
    [] comparison = " AND p.id = " -> 4
    [] comparison = " AND u.kvinna_1 = " -> 5
    [] comparison = " AND u.kvinna_2 = " -> 6
    [] comparison = " AND u.kvinna_3 = " -> 7
    [] comparison = " AND u.date >= " -> 8
    [] comparison = " AND u.date <= " -> 9

\* The bindings are those of the placeholders at the places given, in the
\* order of the criteria.
BindingsMatch(params, sql, bindings, places) ==
  /\ Len(places) = Len(bindings)
  /\ \A k \in DOMAIN places :
       /\ k <= Len(bindings)
       /\ bindings[k] = ValueFor(params, ComparisonAt(sql, places[k]),
                                 NumberAt(sql, places[k]))
  /\ \A k \in DOMAIN places :
       k < Len(places) => ComparisonRank(ComparisonAt(sql, places[k]))
                            <= ComparisonRank(ComparisonAt(sql, places[k + 1]))

\* C40: the text buildQuery builds has as many placeholders as there are
\* bindings; the k-th binding is the value of the criterion that the k-th
\* placeholder is compared with (the n-th token between percent signs, the
\* n-th party, the gender, the speaker, 1 or 0 for a tag, a date); and the
\* criteria come in the order tokens, parties, gender, speaker, tag 1, tag 2,
\* tag 3, dateFrom, dateTo.
PlaceholdersMatchBindings ==
  walk.pc = "returned" /\ walk.fn = "buildQuery"
    => BindingsMatch(walk.params, walk.statement.sql, walk.statement.bindings,
                     PlaceholderPlaces(walk.statement.sql))

\* C40 witness: a statement for two tokens, two parties and every other
\* criterion, with eleven bindings: the second token, a question mark, as the
\* second, the second party as the fourth, dateTo as the last.
PlaceholdersMatchBindingsWitness ==
  /\ walk.pc = "returned"
  /\ walk.fn = "buildQuery"
  /\ Len(walk.statement.bindings) = 11
  /\ walk.statement.bindings[2] = TextValue(<<"%", "?", "%">>)
  /\ walk.statement.bindings[4] = StringValue("Right")
  /\ walk.statement.bindings[11] = NumberValue(NumDates)

====
